---- MODULE Spec2Model ----
(***************************************************************************)
(* Verification model of the UnifiedLLM group-planning and reconciliation  *)
(* engine (app/services): the request retry wrapper of GPTLoadClient, the  *)
(* single-flight coordinator SyncService, and the incremental run of       *)
(* ConfigurationGenerator against the remote proxy-group service.          *)
(*                                                                         *)
(* Six specifications share the module's variables:                        *)
(*   SpecRetry  one remote operation through GPTLoadClient._make_request   *)
(*   SpecSync   concurrent triggers of SyncService.sync_configuration and  *)
(*              sync_configuration_incremental, the generator abstracted   *)
(*              to what it hands back                                      *)
(*   SpecRun    incremental runs in sequence, each applied step by step    *)
(*              to the remote service, one remote operation of a run       *)
(*              possibly failing                                           *)
(*   SpecNames  ProviderSplitter.sanitize_name applied to bounded strings  *)
(*   SpecSplit  build_desired_config (split_providers inside) applied to   *)
(*              bounded catalogs with renamed models                       *)
(*   SpecCascade  delete_standard_group_with_cascade applied to bounded    *)
(*              remote group sets, one remote operation possibly failing   *)
(***************************************************************************)
EXTENDS Integers, Sequences, FiniteSets, TLC

VARIABLES
    \* ---- GPTLoadClient._make_request (SpecRetry)
    req_pc,            \* "idle" | "attempting" | "sleeping" | "returned" | "raised"
    req_method,        \* HTTP method of the operation in hand
    req_hist,          \* outcome of every attempt made so far, in order
    req_slept,         \* back-off waits taken so far (seconds), in order
    req_error,         \* the exception class raised to the caller, or "none"
    \* ---- SyncService (SpecSync)
    sync_lock,         \* SyncService._sync_lock.locked()  (class attribute)
    sync_records,      \* the sync_records table: id -> row
    current_sync_id,   \* instance attribute _current_sync_id, 0 is None
    call,              \* every caller's position in its sync call
    \* ---- the incremental run (SpecRun)
    catalog,           \* the providers table with each provider's active models
    remote,            \* the remote service: group id -> stored group
    next_id,           \* the id the remote service gives the next group
    log,               \* the remote operations of the current or last run
    faults,            \* runs so far that had a remote operation fail from outside
    run,               \* the run in hand: its step, snapshot, plan and result
    tracked,           \* the committed rows of the gptload_groups table
    \* ---- the planner's pure functions (SpecNames, SpecSplit)
    name_in,           \* the string last handed to sanitize_name
    name_out,          \* what sanitize_name returned for it
    split_in,          \* the catalog last handed to build_desired_config
    split_out,         \* the desired configuration built from it
    \* ---- one cascade delete on its own (SpecCascade)
    cascade_in,        \* the remote groups before the call, the group to delete
    cascade_out        \* what delete_standard_group_with_cascade gave back

reqVars  == <<req_pc, req_method, req_hist, req_slept, req_error>>
syncVars == <<sync_lock, sync_records, current_sync_id, call>>
runVars  == <<catalog, remote, next_id, log, faults, run, tracked>>
fnVars   == <<name_in, name_out, split_in, split_out, cascade_in, cascade_out>>
vars     == <<reqVars, syncVars, runVars, fnVars>>

(***************************************************************************)
(* Generic helpers                                                         *)
(***************************************************************************)
Max(a, b) == IF a >= b THEN a ELSE b
Min(a, b) == IF a <= b THEN a ELSE b

RECURSIVE Pow(_, _)
Pow(b, e) == IF e = 0 THEN 1 ELSE b * Pow(b, e - 1)

Last(s) == s[Len(s)]

(***************************************************************************)
(* GPTLoadClient._make_request: the tenacity retry wrapper                 *)
(***************************************************************************)
\* stop_after_attempt(3)
MaxAttempts == 3
\* wait_exponential(multiplier=1, min=1, max=10)
WaitMultiplier == 1
WaitMin == 1
WaitMax == 10

Methods == {"GET", "POST", "PUT", "DELETE"}

\* What one execution of the function body can end in.
\*   ok_code0       2xx, {"code": 0, "data": ...}: returns data
\*   ok_plain       2xx, a body without "code": returned as it is
\*   business_error 2xx, {"code": <non-zero>}: ValueError
\*   http_status    raise_for_status(): httpx.HTTPStatusError
\*   timeout        httpx.TimeoutException
\*   network        httpx.NetworkError (connect, read, write, close)
\*   transport      another httpx.TransportError (protocol, proxy, ...)
\*   no_client      _get_client(): RuntimeError, used outside "async with"
AttemptOutcomes ==
    {"ok_code0", "ok_plain", "business_error", "http_status",
     "timeout", "network", "transport", "no_client"}

SuccessOutcomes == {"ok_code0", "ok_plain"}

\* The exception class an attempt's outcome raises ("none" for a success).
RaisedBy(o) ==
    CASE o \in SuccessOutcomes -> "none"
      [] o = "business_error"  -> "ValueError"
      [] o = "http_status"     -> "HTTPStatusError"
      [] o = "timeout"         -> "TimeoutException"
      [] o = "network"         -> "NetworkError"
      [] o = "transport"       -> "TransportError"
      [] o = "no_client"       -> "RuntimeError"

\* Mutant: retry on every exception (retry_if_exception_type(Exception)).
IsRetryableAny(o) == o \notin SuccessOutcomes

\* retry_if_exception_type((httpx.TimeoutException, httpx.NetworkError))
IsRetryable(o) == RaisedBy(o) \in {"TimeoutException", "NetworkError"}

\* wait_exponential.__call__ after attempt number n
WaitAfter(n) == Max(Max(0, WaitMin), Min(WaitMultiplier * Pow(2, n - 1), WaitMax))

\* A client method (list_groups, create_group, ...) calls _make_request.
BeginRequest(m) ==
    /\ req_pc \in {"idle", "returned", "raised"}
    /\ req_pc' = "attempting"
    /\ req_method' = m
    /\ req_hist' = <<>>
    /\ req_slept' = <<>>
    /\ req_error' = "none"
    /\ UNCHANGED <<syncVars, runVars, fnVars>>

\* One execution of the body, and tenacity's decision after it.
Attempt(o) ==
    /\ req_pc = "attempting"
    /\ req_hist' = Append(req_hist, o)
    /\ IF o \in SuccessOutcomes
         THEN /\ req_pc' = "returned"
              /\ UNCHANGED <<req_slept, req_error>>
         ELSE IF IsRetryable(o) /\ Len(req_hist) + 1 < MaxAttempts
           THEN /\ req_pc' = "sleeping"
                /\ req_slept' = Append(req_slept, WaitAfter(Len(req_hist) + 1))
                /\ UNCHANGED req_error
           ELSE /\ req_pc' = "raised"      \* reraise=True: the last exception
                /\ req_error' = RaisedBy(o)
                /\ UNCHANGED req_slept
    /\ UNCHANGED <<req_method, syncVars, runVars, fnVars>>

\* The back-off sleep ends and the body runs again.
WakeUp ==
    /\ req_pc = "sleeping"
    /\ req_pc' = "attempting"
    /\ UNCHANGED <<req_method, req_hist, req_slept, req_error, syncVars, runVars, fnVars>>

NextRetry ==
    \/ \E m \in Methods : BeginRequest(m)
    \/ \E o \in AttemptOutcomes : Attempt(o)
    \/ WakeUp

(***************************************************************************)
(* SyncService: the single-flight coordinator                              *)
(***************************************************************************)
\* Bound: sync records (runs started) in one behaviour.
MaxSyncs == 3

Callers   == {"c1", "c2", "c3"}
Instances == {"s1", "s2"}
SyncKinds == {"full", "incremental"}

\* What the awaited configuration generator hands back to the coordinator.
\*   raised    generate_gptload_configuration[_incremental] raised
\*   errors    result["errors"] is non-empty
\*   applied   the result lists applied changes (full: standard_groups or
\*             aggregate_groups; incremental: standard_groups_created,
\*             standard_groups_updated or aggregate_groups_created)
\*   yaml      generate_uniapi_yaml / export: "ok", "io" (IOError, OSError
\*             of the export, swallowed) or "fault" (any other exception)
GenOutcomes ==
    [raised : BOOLEAN, errors : BOOLEAN, applied : BOOLEAN,
     yaml : {"ok", "io", "fault"}]

\* Mutant: any reported error fails the run, applied changes or not.
RunStatus_FailOnAnyError(g) ==
    IF g.raised \/ g.errors \/ g.yaml = "fault" THEN "failed" ELSE "success"

\* The status the body of the try block ends the record in.
RunStatus(g) ==
    IF g.raised THEN "failed"
    ELSE IF g.errors /\ ~g.applied THEN "failed"
    ELSE IF g.yaml = "fault" THEN "failed"
    ELSE "success"

\* A caller's position: arg is the sync_id handed to retry_failed_sync (0 for
\* the other calls), rec the record its run created.
IdleCall == [pc |-> "idle", kind |-> "none", inst |-> "none", arg |-> 0,
             rec |-> 0, resp |-> "none"]

\* Mutant: the in-progress check reads the instance's _current_sync_id.
LockedByInstance(i) == current_sync_id[i] # 0

\* self._sync_lock.locked(): the lock is a class attribute, one per process.
Locked(i) == sync_lock

NewRecord == [status |-> "in_progress", completed |-> FALSE,
              history |-> <<"in_progress">>]

\* sync_configuration / sync_configuration_incremental up to their first
\* await: the locked() check, "async with" and the record's creation run
\* without a suspension point.
Trigger(c, k, i) ==
    /\ call[c].pc = "idle"
    /\ UNCHANGED <<reqVars, fnVars, runVars>>
    /\ IF Locked(i)
         THEN \* raise RuntimeError("A sync operation is already in progress")
              /\ call' = [call EXCEPT ![c] =
                            [IdleCall EXCEPT !.kind = k, !.inst = i,
                                             !.resp = "conflict"]]
              /\ UNCHANGED <<sync_lock, sync_records, current_sync_id>>
         ELSE IF sync_lock
           THEN \* "async with" on a held lock suspends the caller
                /\ call' = [call EXCEPT ![c] =
                              [IdleCall EXCEPT !.pc = "waiting", !.kind = k,
                                               !.inst = i]]
                /\ UNCHANGED <<sync_lock, sync_records, current_sync_id>>
           ELSE /\ Len(sync_records) < MaxSyncs
                /\ sync_lock' = TRUE
                /\ sync_records' = Append(sync_records, NewRecord)
                /\ current_sync_id' =
                       [current_sync_id EXCEPT ![i] = Len(sync_records) + 1]
                /\ call' = [call EXCEPT ![c] =
                              [IdleCall EXCEPT !.pc = "running", !.kind = k,
                                               !.inst = i,
                                               !.rec = Len(sync_records) + 1]]

\* Mutant: the failure path returns without leaving the lock.
ReleasedAfterSuccessOnly(status) == status # "success"

\* "async with self._sync_lock": the lock is left on every exit path.
LockAfterExit(status) == FALSE

\* Mutant: the except handler records nothing.
FinalRowSkipFailed(row, status) ==
    IF status = "failed" THEN row
    ELSE [status |-> status, completed |-> TRUE,
          history |-> Append(row.history, status)]

\* sync_record.status = ...; sync_record.completed_at = datetime.utcnow()
FinalRow(row, status) ==
    [status |-> status, completed |-> TRUE,
     history |-> Append(row.history, status)]

\* The awaited generator comes back; the rest of the call has no await.
Complete(c, g) ==
    /\ call[c].pc = "running"
    /\ UNCHANGED <<reqVars, fnVars, runVars>>
    /\ LET st == RunStatus(g)
           id == call[c].rec
       IN /\ sync_records' =
                 [sync_records EXCEPT ![id] = FinalRow(sync_records[id], st)]
          /\ call' = [call EXCEPT ![c] =
                        [IdleCall EXCEPT !.kind = call[c].kind,
                                         !.inst = call[c].inst,
                                         !.arg = call[c].arg,
                                         !.rec = id, !.resp = st]]
    /\ current_sync_id' = [current_sync_id EXCEPT ![call[c].inst] = 0]
    /\ sync_lock' = LockAfterExit(RunStatus(g))

\* The status check of retry_failed_sync passing every finished record
RetryableWhenFinished(row) == row.status # "in_progress"

\* failed_sync.status != "failed" raises ValueError
Retryable(row) == row.status = "failed"

\* retry_failed_sync(sync_id): ValueError for an unknown record or one that
\* is not failed; otherwise it awaits sync_configuration, which checks the
\* lock, enters it and creates a new record as every trigger does.
Retry(c, i, sync_id) ==
    /\ call[c].pc = "idle"
    /\ UNCHANGED <<reqVars, fnVars, runVars>>
    /\ LET asked == [IdleCall EXCEPT !.kind = "retry", !.inst = i, !.arg = sync_id]
       IN IF sync_id \notin DOMAIN sync_records
            THEN \* raise ValueError("Sync record ... not found")
                 /\ call' = [call EXCEPT ![c] = [asked EXCEPT !.resp = "value_error"]]
                 /\ UNCHANGED <<sync_lock, sync_records, current_sync_id>>
          ELSE IF ~Retryable(sync_records[sync_id])
            THEN \* raise ValueError("Sync record ... is not in failed status")
                 /\ call' = [call EXCEPT ![c] = [asked EXCEPT !.resp = "value_error"]]
                 /\ UNCHANGED <<sync_lock, sync_records, current_sync_id>>
          ELSE IF Locked(i)
            THEN \* sync_configuration raises RuntimeError
                 /\ call' = [call EXCEPT ![c] = [asked EXCEPT !.resp = "conflict"]]
                 /\ UNCHANGED <<sync_lock, sync_records, current_sync_id>>
          ELSE IF sync_lock
            THEN /\ call' = [call EXCEPT ![c] = [asked EXCEPT !.pc = "waiting"]]
                 /\ UNCHANGED <<sync_lock, sync_records, current_sync_id>>
          ELSE /\ Len(sync_records) < MaxSyncs
               /\ sync_lock' = TRUE
               /\ sync_records' = Append(sync_records, NewRecord)
               /\ current_sync_id' =
                      [current_sync_id EXCEPT ![i] = Len(sync_records) + 1]
               /\ call' = [call EXCEPT ![c] =
                             [asked EXCEPT !.pc = "running",
                                           !.rec = Len(sync_records) + 1]]

\* get_sync_status on instance i: None (here <<>>) unless the instance holds
\* the id of a run of its own and that record exists.
get_sync_status(i) ==
    IF current_sync_id[i] = 0 THEN <<>>
    ELSE IF current_sync_id[i] \notin DOMAIN sync_records THEN <<>>
    ELSE [sync_id |-> current_sync_id[i],
          status  |-> sync_records[current_sync_id[i]].status]

NextSync ==
    \/ \E c \in Callers, k \in SyncKinds, i \in Instances : Trigger(c, k, i)
    \/ \E c \in Callers, g \in GenOutcomes : Complete(c, g)
    \/ \E c \in Callers, i \in Instances, sync_id \in 1..(MaxSyncs + 1) :
          Retry(c, i, sync_id)

(***************************************************************************)
(* Names: strings are sequences of one-character strings                   *)
(***************************************************************************)
UpperChars == <<"A", "B", "C", "D", "E", "F", "G", "H", "I", "J", "K", "L", "M",
                "N", "O", "P", "Q", "R", "S", "T", "U", "V", "W", "X", "Y", "Z">>
LowerChars == <<"a", "b", "c", "d", "e", "f", "g", "h", "i", "j", "k", "l", "m",
                "n", "o", "p", "q", "r", "s", "t", "u", "v", "w", "x", "y", "z">>
DigitChars == <<"0", "1", "2", "3", "4", "5", "6", "7", "8", "9">>

Range(s) == {s[i] : i \in DOMAIN s}

\* The character class [a-z0-9\-_] of sanitize_name
AllowedChars == Range(LowerChars) \cup Range(DigitChars) \cup {"-", "_"}

\* str.lower() on one character
ToLower(c) ==
    IF \E i \in DOMAIN UpperChars : UpperChars[i] = c
      THEN LowerChars[CHOOSE i \in DOMAIN UpperChars : UpperChars[i] = c]
      ELSE c

\* re.sub(r'-+', '-', name): of every run of hyphens the first one stays
CollapseHyphens(s) ==
    LET marked == [i \in 1..Len(s) |->
                     [c |-> s[i], repeated |-> i > 1 /\ s[i] = "-" /\ s[i - 1] = "-"]]
        kept == SelectSeq(marked, LAMBDA e : ~e.repeated)
    IN [i \in 1..Len(kept) |-> kept[i].c]

\* str.lstrip(c)
LStrip(s, c) ==
    IF \A i \in DOMAIN s : s[i] = c THEN <<>>
    ELSE LET first == CHOOSE i \in DOMAIN s :
                          s[i] # c /\ \A k \in 1..(i - 1) : s[k] = c
         IN SubSeq(s, first, Len(s))

\* str.rstrip(c)
RStrip(s, c) ==
    IF \A i \in DOMAIN s : s[i] = c THEN <<>>
    ELSE LET last == CHOOSE i \in DOMAIN s :
                         s[i] # c /\ \A k \in (i + 1)..Len(s) : s[k] = c
         IN SubSeq(s, 1, last)

\* str.replace(a, b) for one-character a and b
Replace(s, a, b) == [i \in 1..Len(s) |-> IF s[i] = a THEN b ELSE s[i]]

RECURSIVE Str(_)
\* str(n) for a natural number
Str(n) == IF n < 10 THEN <<DigitChars[n + 1]>>
          ELSE Str(n \div 10) \o <<DigitChars[(n % 10) + 1]>>

\* Length limit of a remote group name
NameLimit == 100

\* sanitize_name without the second strip after the cut at the limit
sanitize_name_CutOnly(name) ==
    LET lowered   == [i \in 1..Len(name) |-> ToLower(name[i])]
        replaced  == [i \in 1..Len(name) |->
                        IF lowered[i] \in AllowedChars THEN lowered[i] ELSE "-"]
        stripped  == RStrip(LStrip(CollapseHyphens(replaced), "-"), "-")
        limited   == IF Len(stripped) > NameLimit
                       THEN SubSeq(stripped, 1, NameLimit)
                       ELSE stripped
    IN IF limited = <<>> THEN <<"m", "o", "d", "e", "l">> ELSE limited

\* ProviderSplitter.sanitize_name
sanitize_name(name) ==
    LET lowered   == [i \in 1..Len(name) |-> ToLower(name[i])]
        replaced  == [i \in 1..Len(name) |->
                        IF lowered[i] \in AllowedChars THEN lowered[i] ELSE "-"]
        stripped  == RStrip(LStrip(CollapseHyphens(replaced), "-"), "-")
        limited   == IF Len(stripped) > NameLimit
                       THEN RStrip(SubSeq(stripped, 1, NameLimit), "-")
                       ELSE stripped
    IN IF limited = <<>> THEN <<"m", "o", "d", "e", "l">> ELSE limited

(***************************************************************************)
(* Sequence and dict helpers                                               *)
(***************************************************************************)
RECURSIVE Flatten(_)
Flatten(ss) == IF ss = <<>> THEN <<>> ELSE Head(ss) \o Flatten(Tail(ss))

RECURSIVE Dedup(_)
\* the distinct elements of s in order of first appearance (dict key order)
Dedup(s) ==
    IF s = <<>> THEN <<>>
    ELSE LET init == Dedup(SubSeq(s, 1, Len(s) - 1))
         IN IF Last(s) \in Range(init) THEN init ELSE Append(init, Last(s))

\* d[key] = value on a dict kept as a sequence of entries with a name field:
\* a known key keeps its position and takes the new value.
DictPut(d, entry) ==
    IF \E i \in DOMAIN d : d[i].name = entry.name
      THEN [i \in DOMAIN d |-> IF d[i].name = entry.name THEN entry ELSE d[i]]
      ELSE Append(d, entry)

RECURSIVE DictFrom(_)
DictFrom(entries) ==
    IF entries = <<>> THEN <<>>
    ELSE DictPut(DictFrom(SubSeq(entries, 1, Len(entries) - 1)), Last(entries))

DictKeys(d) == {d[i].name : i \in DOMAIN d}
DictGet(d, key) == d[CHOOSE i \in DOMAIN d : d[i].name = key]

\* dict.get(key, default) on a record
Get(r, key, default) == IF key \in DOMAIN r THEN r[key] ELSE default

\* a.get(key) == b.get(key), an absent key reading as None
SameField(a, b, key) ==
    /\ (key \in DOMAIN a) <=> (key \in DOMAIN b)
    /\ (key \in DOMAIN a) => (a[key] = b[key])

(***************************************************************************)
(* The local catalog: providers and their active models                    *)
(***************************************************************************)
ProviderA  == <<"a">>
ProviderUA == <<"A">>
ProviderB  == <<"b">>
ModelX == <<"x">>
ModelY == <<"y">>

\* providers in the order db.query(Provider).all() returns them
ProviderOrder == <<ProviderA, ProviderUA, ProviderB>>
ModelOrder == <<ModelX, ModelY>>

\* (provider, original model) pairs the database can hold as active models
Cells == {<<ProviderA, ModelX>>, <<ProviderA, ModelY>>,
          <<ProviderUA, ModelX>>, <<ProviderB, ModelX>>}

\* Provider.base_url, Provider.channel_type and the decrypted API key
BaseUrl(p) == IF p = ProviderB THEN <<"v">> ELSE <<"u", "/">>
ChannelTypeOf(p) == IF p = ProviderB THEN "anthropic" ELSE "openai"
ApiKeyOf(p) == <<"k">> \o p

\* The providers table and each provider's active models rows.
CatalogOf(cells) ==
    [i \in DOMAIN ProviderOrder |->
        [name   |-> ProviderOrder[i],
         models |-> LET offered == SelectSeq(ModelOrder,
                           LAMBDA m : <<ProviderOrder[i], m>> \in cells)
                    IN [j \in DOMAIN offered |->
                           [original_name |-> offered[j],
                            normalized_name |-> offered[j]]]]]

Catalogs == {CatalogOf(cells) : cells \in SUBSET Cells}

(***************************************************************************)
(* ProviderSplitter.split_providers                                        *)
(***************************************************************************)
\* renames.get(original_model, original_model)
NormalizedOf(rename_mapping, provider_name, original_model) ==
    LET renames == Get(rename_mapping, provider_name, <<>>)
    IN Get(renames, original_model, original_model)

\* Step 1: every (provider, original) with its normalized name, in order
ModelSources(providers, rename_mapping) ==
    Flatten([i \in DOMAIN providers |->
        [j \in DOMAIN providers[i].models |->
            [provider   |-> providers[i].name,
             original   |-> providers[i].models[j],
             normalized |-> NormalizedOf(rename_mapping, providers[i].name,
                                         providers[i].models[j])]]])

SourcesOf(sources, model) == SelectSeq(sources, LAMBDA s : s.normalized = model)

\* Step 2: the models with more than one source, in dict order
DuplicateModels(sources) ==
    SelectSeq(Dedup([i \in DOMAIN sources |-> sources[i].normalized]),
              LAMBDA m : Len(SourcesOf(sources, m)) > 1)

SplitGroup(provider, group_name, rules) ==
    [group_name |-> group_name, group_type |-> "standard",
     provider_name |-> provider.name, base_url |-> provider.base_url,
     api_key |-> provider.api_key, channel_type |-> provider.channel_type,
     model_redirect_rules |-> rules]

NoAggregateSuffix ==
    <<"-", "0", "-", "n", "o", "-", "a", "g", "g", "r", "e", "g", "a", "t", "e",
      "-", "m", "o", "d", "e", "l", "s">>

\* Step 3 without the group of the non-duplicate models
ProviderGroups_NoCatchAll(provider, rename_mapping, duplicates) ==
    LET mine == [j \in DOMAIN provider.models |->
                    [original   |-> provider.models[j],
                     normalized |-> NormalizedOf(rename_mapping, provider.name,
                                                 provider.models[j])]]
        dups    == SelectSeq(mine, LAMBDA s : s.normalized \in Range(duplicates))
        dup_keys == Dedup([j \in DOMAIN dups |-> dups[j].normalized])
        OriginalNames(n) == SelectSeq(dups, LAMBDA s : s.normalized = n)
    IN Flatten([k \in DOMAIN dup_keys |->
            [idx \in DOMAIN OriginalNames(dup_keys[k]) |->
                SplitGroup(provider,
                           sanitize_name(provider.name) \o <<"-">> \o Str(idx)
                               \o <<"-">> \o sanitize_name(dup_keys[k]),
                           (dup_keys[k] :> OriginalNames(dup_keys[k])[idx].original))]])

\* Step 3 for one provider: its non-duplicate group, then one group per
\* original name of each duplicate model, numbered within that model.
ProviderGroups(provider, rename_mapping, duplicates) ==
    LET mine == [j \in DOMAIN provider.models |->
                    [original   |-> provider.models[j],
                     normalized |-> NormalizedOf(rename_mapping, provider.name,
                                                 provider.models[j])]]
        dups    == SelectSeq(mine, LAMBDA s : s.normalized \in Range(duplicates))
        nondups == SelectSeq(mine, LAMBDA s : s.normalized \notin Range(duplicates))
        non_duplicate_models ==
            [n \in {nondups[j].normalized : j \in DOMAIN nondups} |->
                nondups[CHOOSE j \in DOMAIN nondups :
                           /\ nondups[j].normalized = n
                           /\ \A k \in DOMAIN nondups :
                                  nondups[k].normalized = n => k <= j].original]
        dup_keys == Dedup([j \in DOMAIN dups |-> dups[j].normalized])
        OriginalNames(n) == SelectSeq(dups, LAMBDA s : s.normalized = n)
        sanitized_provider == sanitize_name(provider.name)
    IN (IF nondups # <<>>
          THEN <<SplitGroup(provider, sanitized_provider \o NoAggregateSuffix,
                            non_duplicate_models)>>
          ELSE <<>>)
       \o Flatten([k \in DOMAIN dup_keys |->
            [idx \in DOMAIN OriginalNames(dup_keys[k]) |->
                SplitGroup(provider,
                           sanitized_provider \o <<"-">> \o Str(idx) \o <<"-">>
                               \o sanitize_name(dup_keys[k]),
                           (dup_keys[k] :> OriginalNames(dup_keys[k])[idx].original))]])

RECURSIVE AggregationMembers(_, _, _, _)
\* Step 4 for one model: for each source, the first group of that provider
\* that maps the model to that original name and is not listed yet.
AggregationMembers(model, sources, split_groups, provider_groups) ==
    IF sources = <<>> THEN provider_groups
    ELSE LET src == Head(sources)
             matches == {i \in DOMAIN split_groups :
                 /\ split_groups[i].provider_name = src.provider
                 /\ model \in DOMAIN split_groups[i].model_redirect_rules
                 /\ split_groups[i].model_redirect_rules[model] = src.original
                 /\ split_groups[i].group_name \notin Range(provider_groups)}
             first == CHOOSE i \in matches : \A k \in matches : i <= k
         IN AggregationMembers(model, Tail(sources), split_groups,
                IF matches = {} THEN provider_groups
                ELSE Append(provider_groups, split_groups[first].group_name))

split_providers(providers, rename_mapping) ==
    LET sources    == ModelSources(providers, rename_mapping)
        duplicates == DuplicateModels(sources)
        split_groups ==
            Flatten([i \in DOMAIN providers |->
                ProviderGroups(providers[i], rename_mapping, duplicates)])
    IN [split_groups |-> split_groups,
        aggregations |->
            [k \in DOMAIN duplicates |->
                [model |-> duplicates[k],
                 names |-> AggregationMembers(duplicates[k],
                               SourcesOf(sources, duplicates[k]),
                               split_groups, <<>>)]]]

(***************************************************************************)
(* ConfigurationGenerator.build_desired_config                             *)
(***************************************************************************)
AggregatePrefix == <<"a", "g", "g", "r", "e", "g", "a", "t", "e", "-">>

\* The ProviderConfig of every provider that has active models.
ProviderConfigs(cat) ==
    LET with_models == SelectSeq(cat, LAMBDA p : p.models # <<>>)
    IN [i \in DOMAIN with_models |->
           [name |-> with_models[i].name,
            base_url |-> BaseUrl(with_models[i].name),
            api_key |-> ApiKeyOf(with_models[i].name),
            channel_type |-> ChannelTypeOf(with_models[i].name),
            models |-> [j \in DOMAIN with_models[i].models |->
                           with_models[i].models[j].original_name]]]

\* {provider.name: {original_name: normalized_name}} for the renamed models
RenameMapping(cat) ==
    LET Renamed(p) == {j \in DOMAIN p.models :
                          p.models[j].normalized_name # p.models[j].original_name}
        having == {i \in DOMAIN cat : cat[i].models # <<>> /\ Renamed(cat[i]) # {}}
    IN [n \in {cat[i].name : i \in having} |->
           LET p == cat[CHOOSE i \in having : cat[i].name = n]
           IN [o \in {p.models[j].original_name : j \in Renamed(p)} |->
                  p.models[CHOOSE j \in Renamed(p) :
                               p.models[j].original_name = o].normalized_name]]

\* build_desired_config, from the splitter's result on: group_by_name takes
\* the standard groups, then the aggregates; an entry under a name already
\* present replaces it.
DesiredFrom(split) ==
    LET standard == [i \in DOMAIN split.split_groups |->
            [name |-> split.split_groups[i].group_name,
             group_type |-> "standard",
             channel_type |-> split.split_groups[i].channel_type,
             provider_name |-> split.split_groups[i].provider_name,
             base_url |-> split.split_groups[i].base_url,
             api_key |-> split.split_groups[i].api_key,
             model_redirect_rules |-> split.split_groups[i].model_redirect_rules,
             model_redirect_strict |-> TRUE]]
        aggregate == [k \in DOMAIN split.aggregations |->
            [name |-> AggregatePrefix \o sanitize_name(split.aggregations[k].model),
             group_type |-> "aggregate",
             channel_type |-> "openai",
             model_name |-> split.aggregations[k].model,
             sub_group_names |-> split.aggregations[k].names]]
    IN [split_groups |-> split.split_groups,
        aggregations |-> split.aggregations,
        group_by_name |-> DictFrom(standard \o aggregate)]

build_desired_config(cat) ==
    DesiredFrom(split_providers(ProviderConfigs(cat), RenameMapping(cat)))

(***************************************************************************)
(* GPTLoadClient: one remote operation each, retries exhausted inside.     *)
(* A world w is the remote service as the run sees it:                     *)
(*   w.remote   group id -> stored group (DOMAIN = the ids that exist)     *)
(*   w.next_id  the id the service gives the next created group           *)
(*   w.log      the remote operations of this run, in order                *)
(*   w.fail     the ordinal of the operation of this run that fails for a  *)
(*              cause outside the engine (0: none)                         *)
(* Every operation returns [w, ok, val]: the world after it, whether it    *)
(* returned (ok) or raised, and the value returned.                        *)
(***************************************************************************)
MutatingOps == {"create_group", "update_group", "delete_group",
                "add_sub_groups", "delete_sub_group", "add_keys_to_group"}

Injected(w) == Len(w.log) + 1 = w.fail

Logged(w, op, id, arg, ok) ==
    [w EXCEPT !.log = Append(@, [op |-> op, id |-> id, arg |-> arg, ok |-> ok])]

Response(w, ok, val) == [w |-> w, ok |-> ok, val |-> val]

RECURSIVE SortedIds(_)
SortedIds(ids) ==
    IF ids = {} THEN <<>>
    ELSE LET least == CHOOSE i \in ids : \A k \in ids : i <= k
         IN <<least>> \o SortedIds(ids \ {least})

\* A group as the listing returns it.
Listed(g) ==
    [id |-> g.id, name |-> g.name, group_type |-> g.group_type,
     channel_type |-> g.channel_type,
     model_redirect_rules |-> g.model_redirect_rules,
     model_redirect_strict |-> g.model_redirect_strict,
     upstreams |-> g.upstreams]

\* GET /api/groups
list_groups(w) ==
    LET ok == ~Injected(w)
        ids == SortedIds(DOMAIN w.remote)
    IN Response(Logged(w, "list_groups", 0, 0, ok), ok,
                IF ok THEN [i \in DOMAIN ids |-> Listed(w.remote[ids[i]])] ELSE <<>>)

\* GET /api/groups/{id}/sub-groups
get_sub_groups(w, group_id) ==
    LET ok == ~Injected(w) /\ group_id \in DOMAIN w.remote
        ids == IF ok THEN SortedIds(w.remote[group_id].subs) ELSE <<>>
    IN Response(Logged(w, "get_sub_groups", group_id, 0, ok), ok,
                [i \in DOMAIN ids |->
                    [group |-> [id |-> ids[i], name |-> w.remote[ids[i]].name],
                     weight |-> 10]])

\* GET /api/groups/{id}/parent-aggregate-groups
get_parent_aggregate_groups(w, group_id) ==
    LET ok == ~Injected(w) /\ group_id \in DOMAIN w.remote
        ids == IF ok THEN SortedIds({a \in DOMAIN w.remote :
                                        group_id \in w.remote[a].subs})
               ELSE <<>>
    IN Response(Logged(w, "get_parent_aggregate_groups", group_id, 0, ok), ok,
                [i \in DOMAIN ids |->
                    [group_id |-> ids[i], name |-> w.remote[ids[i]].name]])

\* POST /api/groups: the service refuses a name it already holds.
create_group(w, group_config) ==
    LET ok == /\ ~Injected(w)
              /\ \A i \in DOMAIN w.remote : w.remote[i].name # group_config.name
        id == w.next_id
        stored == [id |-> id, name |-> group_config.name,
                   group_type |-> group_config.group_type,
                   channel_type |-> group_config.channel_type,
                   model_redirect_rules |->
                       Get(group_config, "model_redirect_rules", <<>>),
                   model_redirect_strict |->
                       Get(group_config, "model_redirect_strict", FALSE),
                   upstreams |-> Get(group_config, "upstreams", <<>>),
                   subs |-> {}, keys |-> {}]
        after == IF ok THEN [w EXCEPT !.remote = @ @@ (id :> stored),
                                      !.next_id = @ + 1]
                 ELSE w
    IN Response(Logged(after, "create_group", IF ok THEN id ELSE 0,
                       group_config.name, ok),
                ok, IF ok THEN Listed(stored) ELSE <<>>)

\* PUT /api/groups/{id}
update_group(w, group_id, payload) ==
    LET ok == ~Injected(w) /\ group_id \in DOMAIN w.remote
        after == IF ok
          THEN [w EXCEPT !.remote[group_id] =
                  [@ EXCEPT
                     !.model_redirect_rules = Get(payload, "model_redirect_rules", @),
                     !.model_redirect_strict = Get(payload, "model_redirect_strict", @),
                     !.channel_type = Get(payload, "channel_type", @),
                     !.upstreams = Get(payload, "upstreams", @)]]
          ELSE w
    IN Response(Logged(after, "update_group", group_id, 0, ok), ok,
                IF ok THEN Listed(after.remote[group_id]) ELSE <<>>)

\* DELETE /api/groups/{id}: the group goes, and its membership links with it.
delete_group(w, group_id) ==
    LET ok == ~Injected(w) /\ group_id \in DOMAIN w.remote
        after == IF ok
          THEN [w EXCEPT !.remote =
                  [i \in DOMAIN w.remote \ {group_id} |->
                      [w.remote[i] EXCEPT !.subs = @ \ {group_id}]]]
          ELSE w
    IN Response(Logged(after, "delete_group", group_id, 0, ok), ok, <<>>)

\* POST /api/groups/{id}/sub-groups
add_sub_groups(w, group_id, sub_groups) ==
    LET ids == {sub_groups[i].group_id : i \in DOMAIN sub_groups}
        ok == /\ ~Injected(w)
              /\ group_id \in DOMAIN w.remote
              /\ w.remote[group_id].group_type = "aggregate"
              /\ ids \subseteq DOMAIN w.remote
        after == IF ok THEN [w EXCEPT !.remote[group_id].subs = @ \cup ids] ELSE w
    IN Response(Logged(after, "add_sub_groups", group_id, ids, ok), ok, <<>>)

\* DELETE /api/groups/{id}/sub-groups/{sub_id}
delete_sub_group(w, group_id, sub_group_id) ==
    LET ok == ~Injected(w) /\ group_id \in DOMAIN w.remote
        after == IF ok THEN [w EXCEPT !.remote[group_id].subs = @ \ {sub_group_id}]
                 ELSE w
    IN Response(Logged(after, "delete_sub_group", group_id, {sub_group_id}, ok),
                ok, <<>>)

\* POST /api/keys/add-multiple
add_keys_to_group(w, group_id, keys) ==
    LET ok == ~Injected(w) /\ group_id \in DOMAIN w.remote
        after == IF ok THEN [w EXCEPT !.remote[group_id].keys = @ \cup keys] ELSE w
    IN Response(Logged(after, "add_keys_to_group", group_id, 0, ok), ok, <<>>)

\* create_standard_group: the payload of a standard group
create_standard_group(w, name, channel_type, upstream_url, model_redirect_rules) ==
    create_group(w,
        [name |-> Replace(name, ".", "-"),
         group_type |-> "standard",
         channel_type |-> channel_type,
         upstreams |-> <<[url |-> RStrip(upstream_url, "/"), weight |-> 10]>>,
         model_redirect_rules |-> model_redirect_rules,
         model_redirect_strict |-> TRUE])

\* create_aggregate_group: the payload of an aggregate group
create_aggregate_group(w, name, channel_type) ==
    create_group(w,
        [name |-> Replace(name, ".", "-"),
         group_type |-> "aggregate",
         channel_type |-> channel_type])

\* add_sub_groups_with_equal_weights
add_sub_groups_with_equal_weights(w, aggregate_group_id, standard_group_ids) ==
    add_sub_groups(w, aggregate_group_id,
        [i \in DOMAIN standard_group_ids |->
            [group_id |-> standard_group_ids[i], weight |-> 10]])

(***************************************************************************)
(* GPTLoadClient.get_existing_config and diff_configs                      *)
(***************************************************************************)
RECURSIVE AttachSubGroups(_, _, _)
\* The loop of get_existing_config over the listed groups: an aggregate gets
\* its sub_groups from get_sub_groups, or [] when that call raises.
AttachSubGroups(w, groups, done) ==
    IF groups = <<>> THEN Response(w, TRUE, done)
    ELSE LET group == Head(groups)
         IN IF Get(group, "group_type", "standard") = "aggregate"
              THEN LET r == get_sub_groups(w, group.id)
                   IN AttachSubGroups(r.w, Tail(groups),
                          Append(done, group @@ ("sub_groups" :>
                                     IF r.ok THEN r.val ELSE <<>>)))
              ELSE AttachSubGroups(w, Tail(groups), Append(done, group))

get_existing_config(w) ==
    LET listing == list_groups(w)
    IN IF ~listing.ok THEN Response(listing.w, FALSE, <<>>)
       ELSE LET r == AttachSubGroups(listing.w, listing.val, <<>>)
                IsAggregate(g) == Get(g, "group_type", "standard") = "aggregate"
            IN Response(r.w, TRUE,
                   [groups |-> r.val,
                    standard_groups |-> SelectSeq(r.val, LAMBDA g : ~IsAggregate(g)),
                    aggregate_groups |-> SelectSeq(r.val, IsAggregate),
                    group_by_name |-> DictFrom(r.val)])

\* _extract_sub_group_names: the name of every item, de-duplicated in order
_extract_sub_group_names(group) ==
    LET sub_groups == Get(group, "sub_groups", <<>>)
        named == SelectSeq(sub_groups, LAMBDA item :
                     \/ "name" \in DOMAIN item
                     \/ "group" \in DOMAIN item /\ "name" \in DOMAIN item.group)
    IN Dedup([i \in DOMAIN named |->
                 IF "name" \in DOMAIN named[i] THEN named[i].name
                 ELSE named[i].group.name])

\* _normalize_upstreams: sorted((url.rstrip('/'), weight)), kept as the bag of
\* its pairs: two sorted lists are equal exactly when their bags are.
_normalize_upstreams(upstreams) ==
    LET with_url == SelectSeq(upstreams, LAMBDA up : Get(up, "url", <<>>) # <<>>)
        pairs == [i \in DOMAIN with_url |->
                     <<RStrip(with_url[i].url, "/"), Get(with_url[i], "weight", 10)>>]
    IN [pr \in Range(pairs) |-> Cardinality({i \in DOMAIN pairs : pairs[i] = pr})]

\* _detect_standard_group_changes: changed field -> detail; empty is None
_detect_standard_group_changes(existing_group, desired_group) ==
    LET existing_rules == Get(existing_group, "model_redirect_rules", <<>>)
        desired_rules  == Get(desired_group, "model_redirect_rules", <<>>)
        existing_upstreams ==
            _normalize_upstreams(Get(existing_group, "upstreams", <<>>))
        desired_upstreams ==
            _normalize_upstreams(Get(desired_group, "upstreams", <<>>))
    IN (IF existing_rules # desired_rules
          THEN "model_redirect_rules" :>
                 [added   |-> DOMAIN desired_rules \ DOMAIN existing_rules,
                  removed |-> DOMAIN existing_rules \ DOMAIN desired_rules,
                  changed |-> {m \in DOMAIN existing_rules \cap DOMAIN desired_rules :
                                  existing_rules[m] # desired_rules[m]}]
          ELSE <<>>)
       @@ (IF ~SameField(existing_group, desired_group, "channel_type")
             THEN "channel_type" :> TRUE ELSE <<>>)
       @@ (IF ~SameField(existing_group, desired_group, "model_redirect_strict")
             THEN "model_redirect_strict" :> TRUE ELSE <<>>)
       @@ (IF existing_upstreams # desired_upstreams
             THEN "upstreams" :> [old |-> existing_upstreams,
                                  new |-> desired_upstreams]
             ELSE <<>>)

\* _detect_aggregate_group_changes
_detect_aggregate_group_changes(existing_group, desired_group) ==
    LET existing_subs == Range(_extract_sub_group_names(existing_group))
        desired_subs  == Range(Get(desired_group, "sub_group_names", <<>>))
        InDesiredOrder(names) ==
            SelectSeq(Get(desired_group, "sub_group_names", <<>>),
                      LAMBDA n : n \in names)
        InExistingOrder(names) ==
            SelectSeq(_extract_sub_group_names(existing_group),
                      LAMBDA n : n \in names)
    IN IF existing_subs # desired_subs
         THEN "sub_groups" :>
                [added   |-> Dedup(InDesiredOrder(desired_subs \ existing_subs)),
                 removed |-> InExistingOrder(existing_subs \ desired_subs),
                 existing_count |-> Cardinality(existing_subs),
                 desired_count  |-> Cardinality(desired_subs)]
         ELSE <<>>

\* The split by type left out: every group counts for every type
OfAnyType(by_name, type) == by_name

OfType(by_name, type) ==
    SelectSeq(by_name, LAMBDA g : Get(g, "group_type", "standard") = type)

diff_configs(existing_config, desired_config) ==
    LET existing_by_name == existing_config.group_by_name
        desired_by_name  == desired_config.group_by_name
        existing_standard  == OfType(existing_by_name, "standard")
        existing_aggregate == OfType(existing_by_name, "aggregate")
        desired_standard   == OfType(desired_by_name, "standard")
        desired_aggregate  == OfType(desired_by_name, "aggregate")
        Update(desired, existing, Changes(_, _)) ==
            LET shared == SelectSeq(desired, LAMBDA g :
                    /\ g.name \in DictKeys(existing)
                    /\ DOMAIN Changes(DictGet(existing, g.name), g) # {})
            IN [i \in DOMAIN shared |->
                   [name |-> shared[i].name,
                    group_id |-> DictGet(existing, shared[i].name).id,
                    existing |-> DictGet(existing, shared[i].name),
                    desired |-> shared[i],
                    changes |-> Changes(DictGet(existing, shared[i].name), shared[i])]]
        Names(groups) == [i \in DOMAIN groups |-> groups[i].name]
        orphans == SelectSeq(existing_aggregate, LAMBDA g :
                    /\ g.name \in DictKeys(desired_aggregate)
                    /\ Len(Get(DictGet(desired_aggregate, g.name),
                               "sub_group_names", <<>>)) = 1)
    IN [to_create_standard |->
            SelectSeq(desired_standard,
                      LAMBDA g : g.name \notin DictKeys(existing_standard)),
        to_delete_standard |->
            Names(SelectSeq(existing_standard,
                      LAMBDA g : g.name \notin DictKeys(desired_standard))),
        to_update_standard |->
            Update(desired_standard, existing_standard,
                   _detect_standard_group_changes),
        to_create_aggregate |->
            SelectSeq(desired_aggregate,
                      LAMBDA g : g.name \notin DictKeys(existing_aggregate)),
        to_delete_aggregate |->
            Names(SelectSeq(existing_aggregate,
                      LAMBDA g : g.name \notin DictKeys(desired_aggregate))),
        to_update_aggregate |->
            Update(desired_aggregate, existing_aggregate,
                   _detect_aggregate_group_changes),
        orphaned_aggregates |->
            [i \in DOMAIN orphans |->
                [name |-> orphans[i].name,
                 group_id |-> orphans[i].id,
                 remaining_sub_group |->
                     DictGet(desired_aggregate, orphans[i].name).sub_group_names[1]]]]

\* The plan lists nothing to do.
EmptyPlan(diff) ==
    /\ diff.to_create_standard = <<>> /\ diff.to_create_aggregate = <<>>
    /\ diff.to_update_standard = <<>> /\ diff.to_update_aggregate = <<>>
    /\ diff.to_delete_standard = <<>> /\ diff.to_delete_aggregate = <<>>
    /\ diff.orphaned_aggregates = <<>>

(***************************************************************************)
(* The steps of generate_gptload_configuration_incremental, with the       *)
(* GPTLoadClient helpers they call.  A step takes the world and the run's  *)
(* result so far and returns both after the step.                          *)
(***************************************************************************)
Err(msg, name) == [msg |-> msg, name |-> name]

EmptyResult ==
    [standard_groups_created |-> <<>>, standard_groups_updated |-> <<>>,
     standard_groups_deleted |-> <<>>, aggregate_groups_created |-> <<>>,
     aggregate_groups_deleted |-> <<>>, errors |-> <<>>]

StartsWith(s, prefix) ==
    Len(s) >= Len(prefix) /\ SubSeq(s, 1, Len(prefix)) = prefix

RECURSIVE cleanup_orphaned_aggregates(_, _, _)
cleanup_orphaned_aggregates(w, orphaned_aggregates, errors) ==
    IF orphaned_aggregates = <<>> THEN [w |-> w, errors |-> errors]
    ELSE LET orphan_info == Head(orphaned_aggregates)
             r == delete_group(w, orphan_info.group_id)
         IN cleanup_orphaned_aggregates(r.w, Tail(orphaned_aggregates),
                IF r.ok THEN errors
                ELSE Append(errors, Err("Delete orphaned aggregate", orphan_info.name)))

\* Step 4 left out: the orphaned aggregates stay.
DeleteOrphansSkipped(w, result, diff) == [w |-> w, result |-> result]

\* Step 4: delete orphaned aggregates; every orphan is reported deleted.
DeleteOrphans(w, result, diff) ==
    IF diff.orphaned_aggregates = <<>> THEN [w |-> w, result |-> result]
    ELSE LET cleanup_result ==
                 cleanup_orphaned_aggregates(w, diff.orphaned_aggregates, <<>>)
         IN [w |-> cleanup_result.w,
             result |-> [result EXCEPT
                 !.aggregate_groups_deleted = @ \o
                     [i \in DOMAIN diff.orphaned_aggregates |->
                         [name |-> diff.orphaned_aggregates[i].name,
                          reason |-> "orphaned"]],
                 !.errors = @ \o cleanup_result.errors]]

RECURSIVE DeleteAggregates(_, _, _, _)
\* Step 5: delete the aggregates that are no longer desired.
DeleteAggregates(w, result, names, existing_config) ==
    IF names = <<>> THEN [w |-> w, result |-> result]
    ELSE LET agg_name == Head(names)
         IN IF agg_name \notin DictKeys(existing_config.group_by_name)
              THEN DeleteAggregates(w, result, Tail(names), existing_config)
              ELSE LET r == delete_group(w,
                              DictGet(existing_config.group_by_name, agg_name).id)
                   IN DeleteAggregates(r.w,
                        IF r.ok
                          THEN [result EXCEPT !.aggregate_groups_deleted =
                                  Append(@, [name |-> agg_name, reason |-> "recreation"])]
                          ELSE [result EXCEPT !.errors =
                                  Append(@, Err("Delete aggregate", agg_name))],
                        Tail(names), existing_config)

\* update_standard_group_models: the update payload; a channel type or an
\* upstream URL that is None or empty is left out of it.
update_standard_group_models(w, group_id, new_model_redirect_rules, channel_type, upstream_url) ==
    update_group(w, group_id,
        [model_redirect_rules |-> new_model_redirect_rules,
         model_redirect_strict |-> TRUE]
        @@ (IF channel_type # ""
              THEN "channel_type" :> channel_type ELSE <<>>)
        @@ (IF upstream_url # <<>>
              THEN "upstreams" :> <<[url |-> RStrip(upstream_url, "/"),
                                     weight |-> 10]>>
              ELSE <<>>))

RECURSIVE apply_standard_group_updates(_, _, _)
apply_standard_group_updates(w, updates, errors) ==
    IF updates = <<>> THEN [w |-> w, errors |-> errors]
    ELSE LET update_info == Head(updates)
             r == update_standard_group_models(w, update_info.group_id,
                      Get(update_info.desired, "model_redirect_rules", <<>>),
                      Get(update_info.desired, "channel_type", ""),
                      Get(update_info.desired, "base_url", <<>>))
         IN apply_standard_group_updates(r.w, Tail(updates),
                IF r.ok THEN errors
                ELSE Append(errors, Err("Update", update_info.name)))

\* Step 6: update the standard groups; every planned update is reported.
UpdateStandard(w, result, diff) ==
    IF diff.to_update_standard = <<>> THEN [w |-> w, result |-> result]
    ELSE LET update_result ==
                 apply_standard_group_updates(w, diff.to_update_standard, <<>>)
         IN [w |-> update_result.w,
             result |-> [result EXCEPT
                 !.standard_groups_updated =
                     [i \in DOMAIN diff.to_update_standard |->
                         [name |-> diff.to_update_standard[i].name,
                          changes |-> diff.to_update_standard[i].changes]],
                 !.errors = @ \o update_result.errors]]

RECURSIVE RemoveSubGroups(_, _, _, _)
\* Step 6.5, the removals of one aggregate: a failure is logged as a warning.
RemoveSubGroups(w, agg_id, removed_subs, existing_config) ==
    IF removed_subs = <<>> THEN w
    ELSE IF Head(removed_subs) \notin DictKeys(existing_config.group_by_name)
      THEN RemoveSubGroups(w, agg_id, Tail(removed_subs), existing_config)
      ELSE RemoveSubGroups(
               delete_sub_group(w, agg_id,
                   DictGet(existing_config.group_by_name, Head(removed_subs)).id).w,
               agg_id, Tail(removed_subs), existing_config)

RECURSIVE AddSubGroups(_, _, _, _)
\* Step 6.5, the additions of one aggregate: only names of the snapshot
\* resolve to an id; a failure is logged as a warning.
AddSubGroups(w, agg_id, added_subs, existing_config) ==
    IF added_subs = <<>> THEN w
    ELSE IF Head(added_subs) \notin DictKeys(existing_config.group_by_name)
      THEN AddSubGroups(w, agg_id, Tail(added_subs), existing_config)
      ELSE AddSubGroups(
               add_sub_groups_with_equal_weights(w, agg_id,
                   <<DictGet(existing_config.group_by_name, Head(added_subs)).id>>).w,
               agg_id, Tail(added_subs), existing_config)

RECURSIVE UpdateAggregates(_, _, _)
\* Step 6.5: apply the membership changes of the aggregates to update.
UpdateAggregates(w, updates, existing_config) ==
    IF updates = <<>> THEN w
    ELSE LET agg_update == Head(updates)
             changes == agg_update.changes
         IN IF "sub_groups" \notin DOMAIN changes
              THEN UpdateAggregates(w, Tail(updates), existing_config)
              ELSE UpdateAggregates(
                     AddSubGroups(
                       RemoveSubGroups(w, agg_update.group_id,
                           changes["sub_groups"].removed, existing_config),
                       agg_update.group_id, changes["sub_groups"].added,
                       existing_config),
                     Tail(updates), existing_config)

RECURSIVE CreateStandardGroups(_, _, _, _)
\* create_new_provider_groups, first loop: create each group, then add its
\* API key.
CreateStandardGroups(w, new_standard_groups, created_groups, errors) ==
    IF new_standard_groups = <<>>
      THEN [w |-> w, created_groups |-> created_groups, errors |-> errors]
    ELSE LET group_config == Head(new_standard_groups)
             c == create_standard_group(w, group_config.name,
                      Get(group_config, "channel_type", "openai"),
                      Get(group_config, "base_url", <<>>),
                      Get(group_config, "model_redirect_rules", <<>>))
             api_key == Get(group_config, "api_key", <<>>)
             k == add_keys_to_group(c.w, c.val.id, {api_key})
         IN IF ~c.ok
              THEN CreateStandardGroups(c.w, Tail(new_standard_groups), created_groups,
                       Append(errors, Err("Create standard group", group_config.name)))
            ELSE IF api_key = <<>>
              THEN CreateStandardGroups(c.w, Tail(new_standard_groups),
                       Append(created_groups,
                              [name |-> group_config.name, id |-> c.val.id]),
                       errors)
            ELSE CreateStandardGroups(k.w, Tail(new_standard_groups),
                       Append(created_groups,
                              [name |-> group_config.name, id |-> c.val.id]),
                       IF k.ok THEN errors
                       ELSE Append(errors, Err("Add API key", group_config.name)))

RECURSIVE LinkToAggregates(_, _, _, _)
\* create_new_provider_groups, inner loop: one created group is added to
\* every existing aggregate whose name starts with "aggregate-".
LinkToAggregates(w, group_info, existing_aggregates, errors) ==
    IF existing_aggregates = <<>> THEN [w |-> w, errors |-> errors]
    ELSE LET aggregate == Head(existing_aggregates)
             r == add_sub_groups_with_equal_weights(w, aggregate.id,
                                                    <<group_info.id>>)
         IN IF ~StartsWith(aggregate.name, AggregatePrefix)
              THEN LinkToAggregates(w, group_info, Tail(existing_aggregates), errors)
              ELSE LinkToAggregates(r.w, group_info, Tail(existing_aggregates),
                       IF r.ok THEN errors
                       ELSE Append(errors, Err("Add to aggregate", group_info.name)))

RECURSIVE LinkCreatedGroups(_, _, _, _)
LinkCreatedGroups(w, created_groups, existing_aggregates, errors) ==
    IF created_groups = <<>> THEN [w |-> w, errors |-> errors]
    ELSE LET r == LinkToAggregates(w, Head(created_groups), existing_aggregates,
                                   errors)
         IN LinkCreatedGroups(r.w, Tail(created_groups), existing_aggregates,
                              r.errors)

create_new_provider_groups(w, new_standard_groups, existing_aggregates) ==
    LET created == CreateStandardGroups(w, new_standard_groups, <<>>, <<>>)
        linked  == LinkCreatedGroups(created.w, created.created_groups,
                                     existing_aggregates, created.errors)
    IN [w |-> linked.w, created_groups |-> created.created_groups,
        errors |-> linked.errors]

\* Step 7: create the new standard groups, handing over every aggregate of
\* the snapshot.
CreateStandard(w, result, diff, existing_config) ==
    IF diff.to_create_standard = <<>> THEN [w |-> w, result |-> result]
    ELSE LET aggregates == SelectSeq(existing_config.group_by_name,
                 LAMBDA g : "group_type" \in DOMAIN g /\ g.group_type = "aggregate")
             create_result ==
                 create_new_provider_groups(w, diff.to_create_standard,
                     [i \in DOMAIN aggregates |->
                         [name |-> aggregates[i].name, id |-> aggregates[i].id]])
         IN [w |-> create_result.w,
             result |-> [result EXCEPT
                 !.standard_groups_created = create_result.created_groups,
                 !.errors = @ \o create_result.errors]]

\* cleanup_empty_aggregate_group left out: no check, nothing deleted
cleanup_skipped(w, aggregate_group_id) == Response(w, TRUE, FALSE)

\* cleanup_empty_aggregate_group deleting an aggregate as soon as it has at
\* most one sub-group left
cleanup_single_member_aggregate(w, aggregate_group_id) ==
    LET subs == get_sub_groups(w, aggregate_group_id)
        del  == delete_group(subs.w, aggregate_group_id)
    IN IF ~subs.ok THEN Response(subs.w, FALSE, FALSE)
       ELSE IF Len(subs.val) > 1 THEN Response(subs.w, TRUE, FALSE)
       ELSE Response(del.w, del.ok, del.ok)

\* cleanup_empty_aggregate_group: delete the aggregate when it has no
\* sub-group left; val says whether it was deleted, a failed call raises.
cleanup_empty_aggregate_group(w, aggregate_group_id) ==
    LET subs == get_sub_groups(w, aggregate_group_id)
        del  == delete_group(subs.w, aggregate_group_id)
    IN IF ~subs.ok THEN Response(subs.w, FALSE, FALSE)
       ELSE IF subs.val # <<>> THEN Response(subs.w, TRUE, FALSE)
       ELSE Response(del.w, del.ok, del.ok)

\* list.remove(x): the first occurrence of x goes
ListRemove(s, x) ==
    LET first == CHOOSE i \in DOMAIN s : s[i] = x /\ \A k \in 1..(i - 1) : s[k] # x
    IN SubSeq(s, 1, first - 1) \o SubSeq(s, first + 1, Len(s))

RECURSIVE UnlinkFromParents(_, _, _, _, _)
\* delete_standard_group_with_cascade, the end of one turn of the loop over
\* the parents: the aggregate was appended to updated_aggregates after the
\* unlink; a cleanup that returned True moves it to deleted_aggregates, one
\* that raised is logged and leaves it there.
AfterCleanup(cleanup, standard_group_id, parent_aggregates, updated_aggregates, deleted_aggregates) ==
    LET aggregate_id == Head(parent_aggregates).group_id
        was_deleted == cleanup.ok /\ cleanup.val
    IN UnlinkFromParents(cleanup.w, standard_group_id, Tail(parent_aggregates),
           IF was_deleted
             THEN ListRemove(Append(updated_aggregates, aggregate_id), aggregate_id)
             ELSE Append(updated_aggregates, aggregate_id),
           IF was_deleted
             THEN Append(deleted_aggregates, aggregate_id)
             ELSE deleted_aggregates)

\* delete_standard_group_with_cascade, the loop over the parents: whatever
\* fails for one parent is logged and the loop goes on.
UnlinkFromParents(w, standard_group_id, parent_aggregates, updated_aggregates, deleted_aggregates) ==
    IF parent_aggregates = <<>>
      THEN [w |-> w, updated_aggregates |-> updated_aggregates,
            deleted_aggregates |-> deleted_aggregates]
    ELSE LET aggregate_id == Head(parent_aggregates).group_id
             unlink  == delete_sub_group(w, aggregate_id, standard_group_id)
         IN IF ~unlink.ok
              THEN UnlinkFromParents(unlink.w, standard_group_id,
                       Tail(parent_aggregates), updated_aggregates,
                       deleted_aggregates)
              ELSE AfterCleanup(
                       cleanup_empty_aggregate_group(unlink.w, aggregate_id),
                       standard_group_id, parent_aggregates,
                       updated_aggregates, deleted_aggregates)

\* delete_standard_group_with_cascade, after the loop: the standard group
\* itself is deleted and the report returned.
DeleteUnlinked(unlinked, standard_group_id) ==
    LET del == delete_group(unlinked.w, standard_group_id)
    IN Response(del.w, del.ok,
                [deleted_group_id |-> standard_group_id,
                 updated_aggregates |-> unlinked.updated_aggregates,
                 deleted_aggregates |-> unlinked.deleted_aggregates])

delete_standard_group_with_cascade(w, standard_group_id) ==
    LET parents == get_parent_aggregate_groups(w, standard_group_id)
    IN DeleteUnlinked(
           UnlinkFromParents(parents.w, standard_group_id,
               IF parents.ok THEN parents.val ELSE <<>>, <<>>, <<>>),
           standard_group_id)

\* Step 8, one deletion done: r is what the cascade returned (or that it
\* raised) for the group std_name.
DeletedStandard(result, r, std_name, std_id) ==
    IF r.ok
      THEN [result EXCEPT
              !.standard_groups_deleted =
                  Append(@, [name |-> std_name, id |-> std_id]),
              !.aggregate_groups_deleted = @ \o
                  [i \in DOMAIN r.val.deleted_aggregates |->
                      [id |-> r.val.deleted_aggregates[i],
                       reason |-> "cascade"]]]
      ELSE [result EXCEPT !.errors =
              Append(@, Err("Delete standard group", std_name))]

RECURSIVE DeleteStandard(_, _, _, _)
\* Step 8: delete the standard groups that are no longer desired.
DeleteStandard(w, result, names, existing_config) ==
    IF names = <<>> THEN [w |-> w, result |-> result]
    ELSE LET std_name == Head(names)
         IN IF std_name \notin DictKeys(existing_config.group_by_name)
              THEN DeleteStandard(w, result, Tail(names), existing_config)
              ELSE LET std_id == DictGet(existing_config.group_by_name, std_name).id
                       r == delete_standard_group_with_cascade(w, std_id)
                   IN DeleteStandard(r.w,
                        DeletedStandard(result, r, std_name, std_id),
                        Tail(names), existing_config)

\* recreate_aggregate_group: create the aggregate, then add the sub-groups
\* whose names the id mapping knows; val is the new id, or 0 (None) when
\* either call failed.
recreate_aggregate_group(w, aggregate_name, sub_group_names, group_name_to_id, channel_type) ==
    LET c == create_aggregate_group(w, aggregate_name, channel_type)
        known == SelectSeq(sub_group_names, LAMBDA n : n \in DOMAIN group_name_to_id)
        sub_group_ids == [i \in DOMAIN known |-> group_name_to_id[known[i]]]
        a == add_sub_groups_with_equal_weights(c.w, c.val.id, sub_group_ids)
    IN IF ~c.ok THEN Response(c.w, TRUE, 0)
       ELSE IF known = <<>> THEN Response(c.w, TRUE, c.val.id)
       ELSE Response(a.w, TRUE, IF a.ok THEN c.val.id ELSE 0)

RECURSIVE CreateAggregateGroups(_, _, _, _)
CreateAggregateGroups(w, result, configs, group_name_to_id) ==
    IF configs = <<>> THEN [w |-> w, result |-> result]
    ELSE LET agg_config == Head(configs)
             sub_group_names == Get(agg_config, "sub_group_names", <<>>)
             r == recreate_aggregate_group(w, agg_config.name, sub_group_names,
                      group_name_to_id, Get(agg_config, "channel_type", "openai"))
         IN CreateAggregateGroups(r.w,
                IF r.val # 0
                  THEN [result EXCEPT !.aggregate_groups_created =
                          Append(@, [name |-> agg_config.name, id |-> r.val,
                                     sub_group_count |-> Len(sub_group_names)])]
                  ELSE [result EXCEPT !.errors =
                          Append(@, Err("Failed to create aggregate", agg_config.name))],
                Tail(configs), group_name_to_id)

\* Step 9: list the groups again for the name -> id mapping, then create the
\* aggregates; ok is FALSE when the listing raised.
CreateAggregates(w, result, diff) ==
    IF diff.to_create_aggregate = <<>> THEN [w |-> w, result |-> result, ok |-> TRUE]
    ELSE LET all_groups == list_groups(w)
             group_name_to_id ==
                 [n \in {all_groups.val[i].name : i \in DOMAIN all_groups.val} |->
                     all_groups.val[CHOOSE i \in DOMAIN all_groups.val :
                         /\ all_groups.val[i].name = n
                         /\ \A k \in DOMAIN all_groups.val :
                                all_groups.val[k].name = n => k <= i].id]
             r == CreateAggregateGroups(all_groups.w, result,
                                        diff.to_create_aggregate, group_name_to_id)
         IN IF ~all_groups.ok
              THEN [w |-> all_groups.w, result |-> result, ok |-> FALSE]
              ELSE [w |-> r.w, result |-> r.result, ok |-> TRUE]

\* _update_database_tracking: the rows written for a listing.  The listing's
\* sync_run stands for last_sync_timestamp.
TrackedRows(all_groups, desired_config, cat, sync_run) ==
    {[gptload_group_id |-> g.id, name |-> g.name,
      group_type |-> Get(g, "group_type", "standard"),
      provider_id |->
          IF /\ Get(g, "group_type", "standard") = "standard"
             /\ g.name \in DictKeys(desired_config.group_by_name)
             /\ "provider_name" \in DOMAIN DictGet(desired_config.group_by_name, g.name)
             /\ \E i \in DOMAIN cat :
                    cat[i].name = DictGet(desired_config.group_by_name, g.name).provider_name
            THEN DictGet(desired_config.group_by_name, g.name).provider_name
            ELSE <<>>,
      normalized_model |->
          IF /\ Get(g, "group_type", "standard") = "aggregate"
             /\ StartsWith(g.name, AggregatePrefix)
             /\ g.name \in DictKeys(desired_config.group_by_name)
            THEN Get(DictGet(desired_config.group_by_name, g.name), "model_name", <<>>)
            ELSE <<>>,
      last_sync |-> sync_run] : g \in Range(all_groups)}

(***************************************************************************)
(* An incremental run: SyncService.sync_configuration_incremental around   *)
(* ConfigurationGenerator.generate_gptload_configuration_incremental       *)
(***************************************************************************)
\* Bound: runs in one behaviour.
MaxRuns == 2
\* Bound: runs in one behaviour in which a remote operation fails from outside.
MaxFaults == 1
\* Bound: the highest ordinal of a run's remote operation that may so fail.
MaxFailAt == 12

\* No run yet: an empty snapshot, an empty desired state and their (empty) plan.
NoSnapshot == [groups |-> <<>>, standard_groups |-> <<>>,
               aggregate_groups |-> <<>>, group_by_name |-> <<>>]

\* The desired configuration of an empty catalog, and its plan against an
\* empty remote (the values build_desired_config and diff_configs give).
NoDesired == [split_groups |-> <<>>, aggregations |-> <<>>, group_by_name |-> <<>>]

NoDiff ==
    [to_create_standard |-> <<>>, to_delete_standard |-> <<>>,
     to_update_standard |-> <<>>, to_create_aggregate |-> <<>>,
     to_delete_aggregate |-> <<>>, to_update_aggregate |-> <<>>,
     orphaned_aggregates |-> <<>>]

\* The run's locals; marks holds the length of the log at the end of every
\* step done so far, so that each remote operation is known by its step.
IdleRun ==
    [pc |-> "idle", id |-> 0, fail |-> 0, existing |-> NoSnapshot,
     desired |-> NoDesired,
     diff |-> NoDiff,
     result |-> EmptyResult, raised |-> FALSE, wipe |-> FALSE,
     persisted |-> FALSE, status |-> "none", marks |-> <<>>,
     yaml |-> "none", summary_errors |-> 0]

World == [remote |-> remote, next_id |-> next_id, log |-> log, fail |-> run.fail]

SetWorld(w) ==
    /\ remote' = w.remote
    /\ next_id' = w.next_id
    /\ log' = w.log

\* The outer "except Exception" of the generator: the error is appended and
\* raised again to the coordinator.
Raise(r) ==
    [r EXCEPT !.raised = TRUE, !.pc = "finish",
              !.result.errors = Append(@, Err("Incremental sync failed", <<>>))]

\* Steps 2 and 3 of the generator: the desired state is built and compared
\* with the snapshot; the run goes on to its first mutating step.
Planned(started, existing_config, desired_config) ==
    [started EXCEPT !.pc = "orphans",
                    !.existing = existing_config,
                    !.desired = desired_config,
                    !.diff = diff_configs(existing_config, desired_config)]

\* The trigger is accepted (guard free), the record is created, and the
\* generator does its steps 1 to 3 on the catalog cat: fetch, plan, diff.
StartRun(cat, f) ==
    /\ run.pc = "idle"
    /\ ~sync_lock
    /\ Len(sync_records) < MaxRuns
    /\ f # 0 => faults < MaxFaults
    /\ sync_lock' = TRUE
    /\ sync_records' = Append(sync_records, NewRecord)
    /\ catalog' = cat
    /\ faults' = IF f # 0 THEN faults + 1 ELSE faults
    /\ LET fetched == get_existing_config(
                          [remote |-> remote, next_id |-> next_id,
                           log |-> <<>>, fail |-> f])
           started == [IdleRun EXCEPT !.id = Len(sync_records) + 1, !.fail = f]
       IN /\ SetWorld(fetched.w)
          /\ run' = IF fetched.ok
                      THEN [Planned(started, fetched.val, build_desired_config(cat))
                              EXCEPT !.marks = <<Len(log')>>]
                      ELSE Raise(started)
    /\ UNCHANGED <<reqVars, fnVars, current_sync_id, call, tracked>>

\* The end of a step that cannot raise: x is the world and the result after it.
Advance(next, x) ==
    /\ SetWorld(x.w)
    /\ run' = [run EXCEPT !.pc = next, !.result = x.result,
                          !.marks = Append(@, Len(log'))]
    /\ UNCHANGED <<reqVars, fnVars, syncVars, catalog, faults, tracked>>

StepDeleteOrphans ==
    /\ run.pc = "orphans"
    /\ Advance("delete_aggregates",
         DeleteOrphans(World, run.result, run.diff))

StepDeleteAggregates ==
    /\ run.pc = "delete_aggregates"
    /\ Advance("update_standard",
         DeleteAggregates(World, run.result, run.diff.to_delete_aggregate,
                          run.existing))

StepUpdateStandard ==
    /\ run.pc = "update_standard"
    /\ Advance("update_aggregates",
         UpdateStandard(World, run.result, run.diff))

StepUpdateAggregates ==
    /\ run.pc = "update_aggregates"
    /\ Advance("create_standard",
         [w |-> UpdateAggregates(World, run.diff.to_update_aggregate, run.existing),
          result |-> run.result])

StepCreateStandard ==
    /\ run.pc = "create_standard"
    /\ Advance("delete_standard",
         CreateStandard(World, run.result, run.diff, run.existing))

StepDeleteStandard ==
    /\ run.pc = "delete_standard"
    /\ Advance("create_aggregates",
         DeleteStandard(World, run.result, run.diff.to_delete_standard,
                        run.existing))

StepCreateAggregates ==
    /\ run.pc = "create_aggregates"
    /\ LET x == CreateAggregates(World, run.result, run.diff)
       IN /\ SetWorld(x.w)
          /\ run' = IF x.ok THEN [run EXCEPT !.pc = "persist", !.result = x.result,
                                               !.marks = Append(@, Len(log'))]
                    ELSE Raise(run)
    /\ UNCHANGED <<reqVars, fnVars, syncVars, catalog, faults, tracked>>

\* _update_database_tracking: the rows are wiped, the groups listed, a row
\* written per group and the whole committed; when the listing raises, the
\* wipe stays pending in the session.
StepPersist ==
    /\ run.pc = "persist"
    /\ LET listing == list_groups(World)
       IN /\ SetWorld(listing.w)
          /\ IF listing.ok
               THEN /\ tracked' = TrackedRows(listing.val, run.desired, catalog, run.id)
                    /\ run' = [run EXCEPT !.pc = "finish", !.persisted = TRUE,
                                           !.marks = Append(@, Len(log'))]
               ELSE /\ tracked' = tracked
                    /\ run' = [Raise(run) EXCEPT !.wipe = TRUE]
    /\ UNCHANGED <<reqVars, fnVars, syncVars, catalog, faults>>

\* What the generator handed back, as the coordinator reads it.
Handed(r, yaml) ==
    [raised  |-> r.raised,
     errors  |-> r.result.errors # <<>>,
     applied |-> \/ r.result.standard_groups_created # <<>>
                 \/ r.result.standard_groups_updated # <<>>
                 \/ r.result.aggregate_groups_created # <<>>,
     yaml    |-> yaml]

\* The coordinator reaches the YAML generation when the generator returned
\* and the error check did not raise.
YamlReached(g) == ~g.raised /\ ~(g.errors /\ ~g.applied)

\* _build_incremental_changes_summary: the part "<n> errors: ..." is added to
\* the summary when the report has errors; a failed run records no summary.
SummaryErrors(r, status) ==
    IF status = "success" THEN Len(r.result.errors) ELSE 0

\* The coordinator's end of the run: the record takes its final status (the
\* failure handler's commit also commits a pending wipe) and the guard is left.
Finish(yaml) ==
    /\ run.pc = "finish"
    /\ LET status == RunStatus(Handed(run, yaml))
       IN /\ sync_records' = [sync_records EXCEPT
                                 ![run.id] = FinalRow(sync_records[run.id], status)]
          /\ sync_lock' = LockAfterExit(status)
          /\ run' = [run EXCEPT !.pc = "idle", !.status = status,
                                !.yaml = IF YamlReached(Handed(run, yaml))
                                           THEN yaml ELSE "none",
                                !.summary_errors = SummaryErrors(run, status)]
    /\ tracked' = IF run.wipe THEN {} ELSE tracked
    /\ UNCHANGED <<reqVars, fnVars, current_sync_id, call, catalog, remote, next_id, log,
                   faults>>

NextRun ==
    \/ \E cat \in Catalogs, f \in 0..MaxFailAt : StartRun(cat, f)
    \/ StepDeleteOrphans
    \/ StepDeleteAggregates
    \/ StepUpdateStandard
    \/ StepUpdateAggregates
    \/ StepCreateStandard
    \/ StepDeleteStandard
    \/ StepCreateAggregates
    \/ StepPersist
    \/ \E yaml \in {"ok", "io", "fault"} : Finish(yaml)

(***************************************************************************)
(* The planner's pure functions, each applied once to an input drawn from  *)
(* a bounded set                                                           *)
(***************************************************************************)
\* A function's result slot: empty before the call, filled by it.
NotCalled(empty) == [done |-> FALSE, value |-> empty]
Returned(v) == [done |-> TRUE, value |-> v]

\* Characters the inputs of sanitize_name are made of: a lowercase letter, an
\* uppercase letter, a digit, the two allowed marks and a disallowed one.
NameChars == {"a", "B", "1", "-", "_", "."}

\* Longest head and tail around the filler, and how far past the limit the
\* filler goes.
MaxEdge == 2
MaxOver == 1

Edges == UNION {[1..k -> NameChars] : k \in 0..MaxEdge}
PadLengths == {0} \cup ((NameLimit - MaxEdge - 1)..(NameLimit + MaxOver))
Filler(k) == [i \in 1..k |-> "a"]

\* head, k filler letters, tail: short strings and strings around the limit
NameInputs == {h \o Filler(k) \o t : h \in Edges, k \in PadLengths, t \in Edges}

\* name = ProviderSplitter.sanitize_name(name)
Sanitize ==
    /\ ~name_out.done
    /\ name_out' = Returned(sanitize_name(name_in))
    /\ UNCHANGED <<reqVars, syncVars, runVars, name_in, split_in, split_out,
                   cascade_in, cascade_out>>

NextNames == Sanitize

\* What a model row of the catalog can be: absent (or inactive), present under
\* its original name, or present and renamed.
RowChoices == {"none", "kept", "renamed"}
Slots == {<<ProviderOrder[i], ModelOrder[j]>> :
             i \in DOMAIN ProviderOrder, j \in DOMAIN ModelOrder}

\* Model.normalized_name of a renamed row: x becomes X, every other model
\* becomes x.
RenamedTo(m) == IF m = ModelX THEN <<"X">> ELSE ModelX

\* The providers table and each provider's active models rows, renames
\* included.
RenamedCatalogOf(choice) ==
    [i \in DOMAIN ProviderOrder |->
        [name   |-> ProviderOrder[i],
         models |-> LET offered == SelectSeq(ModelOrder,
                           LAMBDA m : choice[<<ProviderOrder[i], m>>] # "none")
                    IN [j \in DOMAIN offered |->
                           [original_name |-> offered[j],
                            normalized_name |->
                                IF choice[<<ProviderOrder[i], offered[j]>>] = "renamed"
                                  THEN RenamedTo(offered[j]) ELSE offered[j]]]]]

SplitCatalogs == {RenamedCatalogOf(choice) : choice \in [Slots -> RowChoices]}

\* desired = await self.build_desired_config(db)
BuildDesired ==
    /\ ~split_out.done
    /\ split_out' = Returned(build_desired_config(split_in))
    /\ UNCHANGED <<reqVars, syncVars, runVars, name_in, name_out, split_in,
                   cascade_in, cascade_out>>

NextSplit == BuildDesired

\* Remote groups a cascade delete can meet: standard groups 1..MaxStandard
\* and, after them, MaxAggregates aggregates with any sub-groups among them.
MaxStandard == 3
MaxAggregates == 2
\* The latest remote operation of the call that can fail from outside.
MaxCascadeFail == 8

StandardIds == 1..MaxStandard
AggregateIds == (MaxStandard + 1)..(MaxStandard + MaxAggregates)

StoredGroup(id, subs) ==
    [id |-> id,
     name |-> (IF id \in AggregateIds THEN AggregatePrefix ELSE <<"s">>) \o Str(id),
     group_type |-> IF id \in AggregateIds THEN "aggregate" ELSE "standard",
     channel_type |-> "openai",
     model_redirect_rules |-> <<>>,
     model_redirect_strict |-> id \in StandardIds,
     upstreams |-> <<>>,
     subs |-> subs, keys |-> {}]

CascadeRemotes ==
    {[id \in StandardIds \cup AggregateIds |->
         StoredGroup(id, IF id \in AggregateIds THEN members[id] ELSE {})] :
       members \in [AggregateIds -> SUBSET StandardIds]}

NoCascade == [remote |-> <<>>, standard_group_id |-> 0, fail |-> 0]

\* await self.delete_standard_group_with_cascade(standard_group_id)
Cascade ==
    /\ ~cascade_out.done
    /\ LET r == delete_standard_group_with_cascade(
                    [remote |-> remote, next_id |-> next_id, log |-> <<>>,
                     fail |-> cascade_in.fail],
                    cascade_in.standard_group_id)
       IN /\ SetWorld(r.w)
          /\ cascade_out' = Returned([ok |-> r.ok, val |-> r.val])
    /\ UNCHANGED <<reqVars, syncVars, catalog, faults, run, tracked,
                   name_in, name_out, split_in, split_out, cascade_in>>

NextCascade == Cascade

(***************************************************************************)
(* Specifications                                                          *)
(***************************************************************************)
\* The state after construction: no request in hand, the class-level lock
\* free, no sync record, every caller idle.
Init ==
    /\ req_pc = "idle"
    /\ req_method = "GET"
    /\ req_hist = <<>>
    /\ req_slept = <<>>
    /\ req_error = "none"
    /\ sync_lock = FALSE
    /\ sync_records = <<>>
    /\ current_sync_id = [i \in Instances |-> 0]
    /\ call = [c \in Callers |-> IdleCall]
    /\ catalog = CatalogOf({})
    /\ remote = <<>>
    /\ next_id = 1
    /\ log = <<>>
    /\ faults = 0
    /\ run = IdleRun
    /\ tracked = {}
    /\ name_in = <<>>
    /\ name_out = NotCalled(<<>>)
    /\ split_in = CatalogOf({})
    /\ split_out = NotCalled(NoDesired)
    /\ cascade_in = NoCascade
    /\ cascade_out = NotCalled(<<>>)

\* The other components at rest
Quiet ==
    /\ req_pc = "idle"
    /\ req_method = "GET"
    /\ req_hist = <<>>
    /\ req_slept = <<>>
    /\ req_error = "none"
    /\ sync_lock = FALSE
    /\ sync_records = <<>>
    /\ current_sync_id = [i \in Instances |-> 0]
    /\ call = [c \in Callers |-> IdleCall]
    /\ catalog = CatalogOf({})
    /\ remote = <<>>
    /\ next_id = 1
    /\ log = <<>>
    /\ faults = 0
    /\ run = IdleRun
    /\ tracked = {}

\* Any bounded string is about to be sanitized.
InitNames ==
    /\ Quiet
    /\ name_in \in NameInputs
    /\ name_out = NotCalled(<<>>)
    /\ split_in = CatalogOf({})
    /\ split_out = NotCalled(NoDesired)
    /\ cascade_in = NoCascade
    /\ cascade_out = NotCalled(<<>>)

\* Any bounded catalog is about to be planned.
InitSplit ==
    /\ Quiet
    /\ name_in = <<>>
    /\ name_out = NotCalled(<<>>)
    /\ split_in \in SplitCatalogs
    /\ split_out = NotCalled(NoDesired)
    /\ cascade_in = NoCascade
    /\ cascade_out = NotCalled(<<>>)

\* Any bounded remote, any of its standard groups about to be deleted, any
\* one remote operation of the call (or none) about to fail.
InitCascade ==
    /\ req_pc = "idle"
    /\ req_method = "GET"
    /\ req_hist = <<>>
    /\ req_slept = <<>>
    /\ req_error = "none"
    /\ sync_lock = FALSE
    /\ sync_records = <<>>
    /\ current_sync_id = [i \in Instances |-> 0]
    /\ call = [c \in Callers |-> IdleCall]
    /\ catalog = CatalogOf({})
    /\ remote \in CascadeRemotes
    /\ next_id = MaxStandard + MaxAggregates + 1
    /\ log = <<>>
    /\ faults = 0
    /\ run = IdleRun
    /\ tracked = {}
    /\ name_in = <<>>
    /\ name_out = NotCalled(<<>>)
    /\ split_in = CatalogOf({})
    /\ split_out = NotCalled(NoDesired)
    /\ \E g \in StandardIds, f \in 0..MaxCascadeFail :
          cascade_in = [remote |-> remote, standard_group_id |-> g, fail |-> f]
    /\ cascade_out = NotCalled(<<>>)

SpecRetry == Init /\ [][NextRetry]_vars
SpecSync  == Init /\ [][NextSync]_vars
SpecRun   == Init /\ [][NextRun]_vars
SpecNames == InitNames /\ [][NextNames]_vars
SpecSplit == InitSplit /\ [][NextSplit]_vars
SpecCascade == InitCascade /\ [][NextCascade]_vars

(***************************************************************************)
(* Claims on the coordinator (under SpecSync)                              *)
(***************************************************************************)
InProgressIds == {id \in DOMAIN sync_records : sync_records[id].status = "in_progress"}
RunningCallers == {c \in Callers : call[c].pc = "running"}

\* A trigger taken while the guard is held ends at once in the conflict error.
ConflictWhenHeld ==
    \A c \in Callers :
        (sync_lock /\ call[c].pc = "idle" /\ call'[c] # call[c]
                   /\ call'[c].kind \in SyncKinds)
            => (call'[c].pc = "idle" /\ call'[c].resp = "conflict"
                /\ sync_records' = sync_records)

\* C1: across any interleaving of sync_configuration and
\* sync_configuration_incremental calls on any SyncService instances, at most
\* one run is in_progress at any time, no caller ever waits for the guard,
\* and a trigger that arrives while the guard is held fails at once with the
\* conflict error and starts nothing.
C1_SingleFlight ==
    /\ [](/\ Cardinality(InProgressIds) <= 1
          /\ Cardinality(RunningCallers) <= 1
          /\ \A c \in Callers : call[c].pc # "waiting")
    /\ [][ConflictWhenHeld]_vars

\* A second trigger, on another instance, was refused while a run of the
\* first was in progress.
C1_Witness ==
    \E c, d \in Callers :
        /\ call[c].pc = "running" /\ call[d].resp = "conflict"
        /\ call[c].inst # call[d].inst
        /\ call[c].kind # call[d].kind
        /\ InProgressIds = {call[c].rec}

\* C2: whenever a sync call that acquired the guard has returned, on
\* success, on a recorded failure or on a fault inside the run, the guard is
\* no longer held: the guard is held only while some call is running, so a
\* trigger issued afterwards is accepted.
C2_GuardReleased ==
    /\ sync_lock <=> (RunningCallers # {})
    /\ \A c \in Callers :
           (call[c].resp \in {"success", "failed"} /\ RunningCallers = {})
               => ~Locked(call[c].inst)

\* A run ended failed, and a trigger issued after it was accepted.
C2_Witness ==
    \E c, d \in Callers :
        /\ call[c].resp = "failed" /\ call[c].pc = "idle"
        /\ call[d].pc = "running" /\ call[d].rec > call[c].rec

\* C3: every run that created its record in_progress ends with that record
\* success or failed and its completion time set; a record is in_progress
\* only while its call is running, and a finished record never changes
\* status again (its status history is in_progress, then one final status).
C3_RecordLifecycle ==
    \A id \in DOMAIN sync_records :
        LET row == sync_records[id]
            owner == {c \in Callers : call[c].pc = "running" /\ call[c].rec = id}
        IN /\ row.status = Last(row.history)
           /\ row.history \in {<<"in_progress">>,
                               <<"in_progress", "success">>,
                               <<"in_progress", "failed">>}
           /\ (row.status = "in_progress") <=> (owner # {})
           /\ (row.status \in {"success", "failed"}) <=> row.completed
           /\ \A c \in Callers :
                  (call[c].pc = "idle" /\ call[c].rec = id)
                      => (row.status = call[c].resp /\ row.completed)

\* One record ended success and another failed, and a third run is going.
C3_Witness ==
    /\ Len(sync_records) = 3
    /\ sync_records[1].status = "failed" /\ sync_records[1].completed
    /\ sync_records[2].status = "success" /\ sync_records[2].completed
    /\ sync_records[3].status = "in_progress"

\* C10: each remote operation is attempted at most MaxAttempts (3) times; a
\* further attempt follows only an attempt that failed with a timeout or a
\* connection error; a successful attempt ends the operation; a non-network
\* failure ends it after that single attempt with its error raised.
C10_RetryPolicy ==
    LET n == Len(req_hist)
    IN /\ n <= MaxAttempts
       /\ Len(req_slept) <= MaxAttempts - 1
       /\ \A k \in 1..n :
              k < n => RaisedBy(req_hist[k]) \in {"TimeoutException", "NetworkError"}
       /\ (req_pc = "sleeping") =>
              (n < MaxAttempts
               /\ RaisedBy(Last(req_hist)) \in {"TimeoutException", "NetworkError"})
       /\ (n > 0 /\ Last(req_hist) \in SuccessOutcomes)
              => (req_pc = "returned" /\ req_error = "none")
       /\ (n > 0 /\ RaisedBy(Last(req_hist)) \in
                       {"ValueError", "HTTPStatusError", "TransportError", "RuntimeError"})
              => (req_pc = "raised" /\ req_error = RaisedBy(Last(req_hist)))
       /\ (n = MaxAttempts /\ Last(req_hist) \notin SuccessOutcomes)
              => (req_pc = "raised" /\ req_error = RaisedBy(Last(req_hist)))
       /\ (req_pc = "returned") => (n > 0 /\ Last(req_hist) \in SuccessOutcomes)

\* Two transient failures were retried and the third attempt's business
\* error was raised.
C10_Witness ==
    /\ req_pc = "raised"
    /\ req_hist = <<"timeout", "network", "business_error">>
    /\ req_slept = <<1, 2>>
    /\ req_error = "ValueError"

(***************************************************************************)
(* Claims on the incremental run (under SpecRun)                           *)
(***************************************************************************)
\* A run has finished and nothing has been started since.
RunDone == run.pc = "idle" /\ run.id # 0

AllCallsOk == \A i \in DOMAIN log : log[i].ok

FailedCalls(ops) == {i \in DOMAIN log : log[i].op \in ops /\ ~log[i].ok}

\* The calls of the snapshot fetch: the listing, then the sub-group fetches.
FetchReads ==
    {i \in DOMAIN log :
        log[1].op = "list_groups" /\ \A k \in 2..i : log[k].op = "get_sub_groups"}

DesiredNames == DictKeys(run.desired.group_by_name)
RemoteNames == {remote[i].name : i \in DOMAIN remote}
RemoteAggregates == {i \in DOMAIN remote : remote[i].group_type = "aggregate"}
RemoteMembers(a) == {remote[m].name : m \in remote[a].subs}
DesiredMembers(name) ==
    IF name \in DesiredNames
      THEN Range(Get(DictGet(run.desired.group_by_name, name), "sub_group_names", <<>>))
      ELSE {}

\* The plan a fresh, unfailing fetch of the remote state gives against the
\* desired state of the run.
ReDiff ==
    diff_configs(
        get_existing_config([remote |-> remote, next_id |-> next_id,
                             log |-> <<>>, fail |-> 0]).val,
        run.desired)

\* C4: after an incremental run in which every remote call succeeded, the
\* remote group names are exactly the desired standard and aggregate names,
\* and every remote aggregate has exactly its desired members.
C4_RemoteMirrorsDesired ==
    (RunDone /\ ~run.raised /\ AllCallsOk) =>
        /\ RemoteNames = DesiredNames
        /\ \A a \in RemoteAggregates :
               RemoteMembers(a) = DesiredMembers(remote[a].name)

\* C5: convergence: after a plan was applied with every remote call
\* succeeding, the plan of the new remote state against the same desired
\* state is empty.
C5_Convergence ==
    (RunDone /\ ~run.raised /\ AllCallsOk) => EmptyPlan(ReDiff)

\* C6: when a read of the snapshot fetch fails (the listing or a sub-group
\* fetch), the run issues no mutating remote call and ends failed.
C6_ReadFailureAborts ==
    (\E i \in FetchReads : ~log[i].ok) =>
        /\ \A k \in DOMAIN log : log[k].op \notin MutatingOps
        /\ RunDone => run.status = "failed"

\* C7: every failed mutating remote call of a run has its entry in errors[]
\* (at least as many entries as failed mutating calls), and such a failure
\* does not stop the run: with every read succeeding the run gets to its
\* persistence step.
C7_FailuresRecorded ==
    /\ Cardinality(FailedCalls(MutatingOps)) <= Len(run.result.errors)
    /\ (RunDone /\ FailedCalls({"list_groups", "get_sub_groups",
                                "get_parent_aggregate_groups"}) = {})
           => run.persisted

\* C8: orphan dissolution: for every aggregate of the snapshot whose desired
\* membership is exactly one, the finished run issued a delete of it, issued
\* no sub-group add or remove and no create for it, and, its delete having
\* succeeded, no aggregate of that name exists remotely.
C8_OrphanDissolved ==
    (RunDone /\ ~run.raised) =>
        \A o \in Range(run.diff.orphaned_aggregates) :
            /\ \E i \in DOMAIN log :
                   log[i].op = "delete_group" /\ log[i].id = o.group_id
            /\ \A i \in DOMAIN log :
                   /\ log[i].op \in {"add_sub_groups", "delete_sub_group"}
                          => log[i].id # o.group_id
                   /\ log[i].op = "create_group" => log[i].arg # o.name
            /\ (\E i \in DOMAIN log : /\ log[i].op = "delete_group"
                                      /\ log[i].id = o.group_id /\ log[i].ok)
                   => \A a \in RemoteAggregates : remote[a].name # o.name

\* C9: after every run that got to its persistence step, the tracked rows
\* are exactly the remote groups (one row per group with its remote id, name
\* and type), each written by this run; also when errors[] is not empty.
C9_TrackedMirrorsRemote ==
    (RunDone /\ (run.persisted \/ run.wipe)) =>
        /\ {<<t.gptload_group_id, t.name, t.group_type>> : t \in tracked}
               = {<<remote[i].id, remote[i].name, remote[i].group_type>> :
                      i \in DOMAIN remote}
        /\ Cardinality(tracked) = Cardinality(DOMAIN remote)
        /\ \A t \in tracked : t.last_sync = run.id

(***************************************************************************)
(* Claims on sanitize_name (under SpecNames)                               *)
(***************************************************************************)
FallbackName == <<"m", "o", "d", "e", "l">>

\* C14: sanitize_name is idempotent: sanitizing the name it returned gives
\* that name again, for short inputs, for inputs longer than the limit and
\* for inputs that sanitize to the fallback "model".
C14_Idempotent ==
    name_out.done => sanitize_name(name_out.value) = name_out.value

\* An input longer than the limit whose cut ended in a hyphen, so that the
\* second strip shortened it.
C14_Witness ==
    /\ name_out.done
    /\ Len(name_in) > NameLimit
    /\ Len(name_out.value) < NameLimit
    /\ name_out.value # FallbackName

\* C15: the name sanitize_name returns is non-empty, at most 100 characters
\* long, made of lowercase letters, digits, hyphens and underscores only,
\* begins with a lowercase letter or a digit and does not end with a hyphen
\* (or it is exactly "model").
C15_OutputShape ==
    name_out.done =>
        \/ name_out.value = FallbackName
        \/ /\ name_out.value # <<>>
           /\ Len(name_out.value) <= NameLimit
           /\ Range(name_out.value) \subseteq AllowedChars
           /\ name_out.value[1] \in Range(LowerChars) \cup Range(DigitChars)
           /\ Last(name_out.value) # "-"


(***************************************************************************)
(* Claims on split_providers and build_desired_config (under SpecSplit)    *)
(***************************************************************************)
\* The (provider, original name, effective name) of every active model row
ModelRows ==
    UNION {{[provider |-> split_in[i].name,
             original |-> split_in[i].models[j].original_name,
             effective |-> split_in[i].models[j].normalized_name] :
               j \in DOMAIN split_in[i].models} : i \in DOMAIN split_in}

\* The SplitGroups of the row's provider that map its effective name to its
\* original name
GroupsOffering(row) ==
    LET groups == split_out.value.split_groups
    IN {g \in DOMAIN groups :
          /\ groups[g].provider_name = row.provider
          /\ row.effective \in DOMAIN groups[g].model_redirect_rules
          /\ groups[g].model_redirect_rules[row.effective] = row.original}

\* C11: partition completeness: for every provider and every model of its
\* model list, exactly one SplitGroup of that provider maps the model's
\* effective (renamed or original) name to that original name; no model is
\* dropped and none is placed in two groups.
C11_PartitionComplete ==
    split_out.done => \A row \in ModelRows : Cardinality(GroupsOffering(row)) = 1

\* A provider with a unique model and two rows sharing one effective name.
C11_Witness ==
    /\ split_out.done
    /\ \E r1, r2, r3 \in ModelRows :
          /\ r1.provider = r2.provider /\ r1.original # r2.original
          /\ r1.effective = r2.effective
          /\ \A r \in ModelRows \ {r3} : r.effective # r3.effective

SourcesNamed(n) == {row \in ModelRows : row.effective = n}
AggregationKeys ==
    {split_out.value.aggregations[k].model : k \in DOMAIN split_out.value.aggregations}
AggregationOf(n) ==
    split_out.value.aggregations[
        CHOOSE k \in DOMAIN split_out.value.aggregations :
            split_out.value.aggregations[k].model = n]

\* C12: aggregation correctness: a normalized model name is a key of the
\* aggregations mapping iff at least two (provider, original name) sources
\* have that effective name, and its entry then lists at least two
\* SplitGroup names, one per source.
C12_AggregationCorrect ==
    split_out.done =>
        \A n \in {row.effective : row \in ModelRows} :
            /\ (n \in AggregationKeys) <=> (Cardinality(SourcesNamed(n)) >= 2)
            /\ (n \in AggregationKeys) =>
                  /\ Len(AggregationOf(n).names) >= 2
                  /\ Len(AggregationOf(n).names) = Cardinality(SourcesNamed(n))

\* C13: in the desired state of any catalog all group names are pairwise
\* distinct: no two SplitGroups share a group_name, and no aggregate name
\* equals a SplitGroup name or another aggregate's name.
C13_NamesDistinct ==
    split_out.done =>
        LET groups == split_out.value.split_groups
            aggs   == split_out.value.aggregations
            AggName(k) == AggregatePrefix \o sanitize_name(aggs[k].model)
        IN /\ \A g, h \in DOMAIN groups :
                 groups[g].group_name = groups[h].group_name => g = h
           /\ \A k, l \in DOMAIN aggs : AggName(k) = AggName(l) => k = l
           /\ \A k \in DOMAIN aggs, g \in DOMAIN groups :
                 AggName(k) # groups[g].group_name

(***************************************************************************)
(* Claims on diff_configs (under SpecRun: the plan of the run in hand)     *)
(***************************************************************************)
ExistingNamed(type) ==
    {g.name : g \in {e \in Range(run.existing.group_by_name) : e.group_type = type}}
DesiredOf(type) ==
    {e \in Range(run.desired.group_by_name) : e.group_type = type}
DesiredNamed(type) == {g.name : g \in DesiredOf(type)}
NamesIn(groups) == {groups[i].name : i \in DOMAIN groups}

DiffSetsFor(type, to_create, to_delete, to_update) ==
    /\ Range(to_create) = {g \in DesiredOf(type) : g.name \notin ExistingNamed(type)}
    /\ Cardinality(NamesIn(to_create)) = Len(to_create)
    /\ Range(to_delete) = ExistingNamed(type) \ DesiredNamed(type)
    /\ Cardinality(Range(to_delete)) = Len(to_delete)
    /\ NamesIn(to_create) \cap Range(to_delete) = {}
    /\ NamesIn(to_update) \subseteq ExistingNamed(type) \cap DesiredNamed(type)

\* C16: for each group type diff_configs returns as to_create exactly the
\* desired groups whose name is absent from the existing groups of that
\* type, and as to_delete exactly the existing names of that type absent
\* from the desired groups of that type; no name is in both lists of one
\* type, and the update lists hold only names present on both sides.
C16_DiffSets ==
    /\ DiffSetsFor("standard", run.diff.to_create_standard,
                   run.diff.to_delete_standard, run.diff.to_update_standard)
    /\ DiffSetsFor("aggregate", run.diff.to_create_aggregate,
                   run.diff.to_delete_aggregate, run.diff.to_update_aggregate)

\* A plan that creates, deletes and updates standard groups and deletes an
\* aggregate.
C16_Witness ==
    /\ run.diff.to_create_standard # <<>> /\ run.diff.to_delete_standard # <<>>
    /\ run.diff.to_update_standard # <<>>
    /\ run.diff.to_delete_aggregate # <<>>

(***************************************************************************)
(* Claims on delete_standard_group_with_cascade (under SpecCascade)        *)
(***************************************************************************)
\* The aggregates from which the call unlinked the group
UnlinkedParents ==
    {a \in AggregateIds : \E i \in DOMAIN log :
        /\ log[i].op = "delete_sub_group" /\ log[i].id = a
        /\ log[i].arg = {cascade_in.standard_group_id} /\ log[i].ok}

\* The sub-groups the aggregate has left after the unlink
LeftAfterUnlink(a) == cascade_in.remote[a].subs \ {cascade_in.standard_group_id}

\* The emptiness check of the aggregate, and its delete if one was issued,
\* came back from the remote service.
CleanupReturned(a) ==
    \A i \in DOMAIN log :
        (log[i].id = a /\ log[i].op \in {"get_sub_groups", "delete_group"}) => log[i].ok

CascadeRuleFor(a) ==
    LET report == cascade_out.value.val
        deleted == a \notin DOMAIN remote
    IN /\ deleted <=> (LeftAfterUnlink(a) = {})
       /\ (deleted /\ cascade_out.value.ok) =>
             /\ a \in Range(report.deleted_aggregates)
             /\ a \notin Range(report.updated_aggregates)
       /\ Cardinality(LeftAfterUnlink(a)) = 1 =>
             /\ a \in DOMAIN remote
             /\ remote[a].subs = LeftAfterUnlink(a)
             /\ cascade_out.value.ok => a \in Range(report.updated_aggregates)

RetryStep(c) ==
    call[c].pc = "idle" /\ call'[c] # call[c] /\ call'[c].kind = "retry"

\* The step raised ValueError and started nothing.
RefusedWith(c, error) ==
    /\ call'[c].pc = "idle" /\ call'[c].resp = error
    /\ sync_records' = sync_records
    /\ sync_lock' = sync_lock
    /\ current_sync_id' = current_sync_id

\* The step started one new run under a new record and left every record
\* there was, the failed one included, as it was.
StartedNewRun(c) ==
    /\ call'[c].pc = "running"
    /\ Len(sync_records') = Len(sync_records) + 1
    /\ \A id \in DOMAIN sync_records : sync_records'[id] = sync_records[id]
    /\ call'[c].rec = Len(sync_records) + 1
    /\ call'[c].rec # call'[c].arg
    /\ sync_records'[call'[c].rec].status = "in_progress"
    /\ sync_lock'

FailedRecord(id) ==
    id \in DOMAIN sync_records /\ sync_records[id].status = "failed"

\* C18 as stated: retry_failed_sync(sync_id) raises ValueError and starts no
\* run when the record does not exist or its status is not failed; when the
\* record's status is failed it starts exactly one new run under a new
\* record and leaves the original failed record unchanged.
RetryAsStated ==
    \A c \in Callers : RetryStep(c) =>
        IF FailedRecord(call'[c].arg) THEN StartedNewRun(c)
        ELSE RefusedWith(c, "value_error")

C18_RetryAsStated == [][RetryAsStated]_vars

\* C18, amended: as stated when no run holds the guard; a retry of a failed
\* record while a run holds the guard fails with the conflict error of
\* sync_configuration and starts nothing.
RetryUnlessHeld ==
    \A c \in Callers : RetryStep(c) =>
        IF ~FailedRecord(call'[c].arg) THEN RefusedWith(c, "value_error")
        ELSE IF sync_lock THEN RefusedWith(c, "conflict")
        ELSE StartedNewRun(c)

C18_RetryUnlessHeld == [][RetryUnlessHeld]_vars

\* A retry of a failed record is running under a new record, a retry of a
\* record that is not failed was refused.
C18_Witness ==
    \E c, d \in Callers :
        /\ call[c].pc = "running" /\ call[c].kind = "retry"
        /\ sync_records[call[c].arg].status = "failed"
        /\ call[c].rec # call[c].arg
        /\ call[d].kind = "retry" /\ call[d].resp = "value_error"

\* C19: get_sync_status, called on any SyncService instance of the process,
\* returns the id and status of the in-progress run whenever a run holds the
\* single-flight guard, and None whenever no run is in progress, also after
\* a run has finished with success or failure.
C19_StatusOnAnyInstance ==
    \A i \in Instances :
        IF sync_lock
          THEN \E id \in InProgressIds :
                   get_sync_status(i) = [sync_id |-> id, status |-> "in_progress"]
          ELSE get_sync_status(i) = <<>>

(***************************************************************************)
(* Claims on the order of the run's steps (under SpecRun)                  *)
(***************************************************************************)
StepNames ==
    <<"fetch", "orphans", "delete_aggregates", "update_standard",
      "update_aggregates", "create_standard", "delete_standard",
      "create_aggregates", "persist">>

\* The step that issued the i-th remote operation of the run
IssuedIn(i) ==
    StepNames[Min(Len(StepNames),
                  1 + Cardinality({m \in DOMAIN run.marks : run.marks[m] < i}))]

ExistingId(name) == DictGet(run.existing.group_by_name, name).id
PlannedIds(names) ==
    {ExistingId(n) : n \in {m \in names : m \in DictKeys(run.existing.group_by_name)}}
OrphanIds == {o.group_id : o \in Range(run.diff.orphaned_aggregates)}

\* The mutating operations each step may issue
MutationOfStep(e, step) ==
    CASE step = "orphans" ->
           e.op = "delete_group" /\ e.id \in OrphanIds
      [] step = "delete_aggregates" ->
           e.op = "delete_group" /\ e.id \in PlannedIds(Range(run.diff.to_delete_aggregate))
      [] step = "update_standard" ->
           e.op = "update_group" /\ e.id \in PlannedIds(NamesIn(run.diff.to_update_standard))
      [] step = "update_aggregates" ->
           /\ e.op \in {"add_sub_groups", "delete_sub_group"}
           /\ e.id \in PlannedIds(NamesIn(run.diff.to_update_aggregate))
      [] step = "create_standard" ->
           \/ e.op = "create_group" /\ e.arg \in NamesIn(run.diff.to_create_standard)
           \/ e.op \in {"add_keys_to_group", "add_sub_groups"}
      [] step = "delete_standard" ->
           \/ e.op = "delete_sub_group"
           \/ /\ e.op = "delete_group"
              /\ \/ e.id \in PlannedIds(Range(run.diff.to_delete_standard))
                 \/ e.id \in PlannedIds(NamesIn(OfType(run.existing.group_by_name,
                                                        "aggregate")))
      [] step = "create_aggregates" ->
           \/ e.op = "create_group" /\ e.arg \in NamesIn(run.diff.to_create_aggregate)
           \/ e.op = "add_sub_groups"
      [] OTHER -> FALSE

\* C20: in every incremental run the remote mutations come in this order:
\* the orphaned-aggregate deletes; the deletes of the aggregates slated for
\* removal and the field updates of existing standard groups; the sub-group
\* adds and removes on the aggregates flagged for update; the standard-group
\* creates; the cascade deletes of obsolete standard groups; the aggregate
\* creates; the tracked state is replaced only after all of these.  Every
\* mutation belongs to the step that issued it, the steps are taken in this
\* order, and each orphan's delete is issued in the first of them.
C20_StepOrder ==
    /\ \A i \in DOMAIN log :
           log[i].op \in MutatingOps => MutationOfStep(log[i], IssuedIn(i))
    /\ \A i, j \in DOMAIN log :
           (i < j /\ log[i].op = "create_group" /\ log[j].op = "create_group"
                  /\ log[i].arg \in NamesIn(run.diff.to_create_aggregate))
               => log[j].arg \in NamesIn(run.diff.to_create_aggregate)
    /\ \A i, j \in DOMAIN log :
           (i < j /\ log[j].op = "update_group") => log[i].op # "create_group"
    /\ (run.pc \notin {"idle", "orphans"} /\ ~run.raised) =>
           \A id \in OrphanIds : \E i \in DOMAIN log :
               /\ log[i].op = "delete_group" /\ log[i].id = id
               /\ IssuedIn(i) = "orphans"
    /\ run.persisted =>
           /\ Len(run.marks) = Len(StepNames)
           /\ Last(log).op = "list_groups"
           /\ \A t \in tracked : t.last_sync = run.id
    /\ (run.pc \notin {"idle", "finish"}) => \A t \in tracked : t.last_sync # run.id

\* A finished run that deleted an orphan, updated and created standard
\* groups, deleted one by cascade and replaced the tracked state.
C20_Witness ==
    /\ run.pc = "finish" /\ run.persisted
    /\ \E i, j, k, l \in DOMAIN log :
          /\ i < j /\ j < k /\ k < l
          /\ log[i].op = "delete_group" /\ IssuedIn(i) = "orphans"
          /\ log[j].op = "update_group"
          /\ log[k].op = "create_group" /\ IssuedIn(k) = "create_standard"
          /\ log[l].op = "delete_group" /\ IssuedIn(l) = "delete_standard"

(***************************************************************************)
(* Claims on what the steps of a run leave behind (under SpecRun)          *)
(***************************************************************************)
\* The run is past its aggregate-creation step.
AfterAggregates == run.id # 0 /\ run.pc \in {"persist", "finish", "idle"}

\* The aggregates the aggregate-creation step created: the log positions of
\* its successful creates.
CreatedAggregates ==
    {i \in DOMAIN log : /\ log[i].op = "create_group" /\ log[i].ok
                        /\ IssuedIn(i) = "create_aggregates"}

\* C21: every aggregate group created by the aggregate-creation step ends
\* that step with all of its desired member groups linked as sub-groups; an
\* aggregate is never created with fewer members than desired without an
\* entry in errors[].
C21_AggregatesComplete ==
    AfterAggregates =>
        \A i \in CreatedAggregates :
            /\ log[i].id \in DOMAIN remote
            /\ RemoteMembers(log[i].id) = DesiredMembers(log[i].arg)
            /\ Cardinality(remote[log[i].id].subs)
                   < Cardinality(DesiredMembers(log[i].arg))
                 => run.result.errors # <<>>

(***************************************************************************)
(* Claims on the cascade as step 8 uses it (under SpecCascade)             *)
(***************************************************************************)
\* The aggregates that hold the group when the cascade starts
ParentsBefore ==
    {a \in AggregateIds : cascade_in.standard_group_id \in cascade_in.remote[a].subs}

\* The positions in the log of the successful calls op on the group id
Succeeded(op, id) ==
    {i \in DOMAIN log : log[i].op = op /\ log[i].id = id /\ log[i].ok}

\* The positions of the unlinks of the group from the aggregate a
UnlinksFrom(a) ==
    {i \in DOMAIN log : /\ log[i].op = "delete_sub_group" /\ log[i].id = a
                        /\ log[i].arg = {cascade_in.standard_group_id}}

\* The cascade deleted the standard group.
GroupDeleted == Succeeded("delete_group", cascade_in.standard_group_id) # {}

\* The parent lookup of the cascade came back.
ParentsRead ==
    Succeeded("get_parent_aggregate_groups", cascade_in.standard_group_id) # {}

Before(earlier, later) == \A i \in earlier, j \in later : i < j

\* The aggregate a is deleted in the cascade, before the standard group is.
DeletedFirst(a) ==
    /\ Succeeded("delete_group", a) # {}
    /\ Before(Succeeded("delete_group", a),
              Succeeded("delete_group", cascade_in.standard_group_id))

GroupA0 == ProviderA \o NoAggregateSuffix
GroupA1X == ProviderA \o <<"-", "1", "-">> \o ModelX
GroupB1X == ProviderB \o <<"-", "1", "-">> \o ModelX
AggregateX == AggregatePrefix \o ModelX

\* The snapshot of the run holds exactly the groups of a = {x, y}, b = {x},
\* the aggregate of x with both its members, and a no longer offers x while
\* b still does.
ProviderDroppedModel ==
    /\ run.id # 0
    /\ DictKeys(run.existing.group_by_name) = {GroupA0, GroupA1X, GroupB1X, AggregateX}
    /\ Range(_extract_sub_group_names(DictGet(run.existing.group_by_name, AggregateX)))
           = {GroupA1X, GroupB1X}
    /\ DOMAIN DictGet(run.existing.group_by_name, GroupA0).model_redirect_rules = {ModelY}
    /\ catalog = CatalogOf({<<ProviderA, ModelY>>, <<ProviderB, ModelX>>})

\* C23: with remote state created from providers a = {x, y}, b = {x}, when a
\* stops offering x while b still offers it, the next plan lists aggregate-x
\* in orphaned_aggregates and removes a's group of x (it is in
\* to_delete_standard) or a's rule for x (an update of a's catch-all group
\* that removes the rule).
C23_DroppedModelPlan ==
    ProviderDroppedModel =>
        /\ AggregateX \in NamesIn(run.diff.orphaned_aggregates)
        /\ \/ GroupA1X \in Range(run.diff.to_delete_standard)
           \/ \E u \in Range(run.diff.to_update_standard) :
                  /\ u.name = GroupA0
                  /\ "model_redirect_rules" \in DOMAIN u.changes
                  /\ ModelX \in u.changes["model_redirect_rules"].removed

\* The upstream list a desired standard group stands for: its provider's base
\* URL with the weight every created group gets.
DesiredUpstreams(desired_group) ==
    <<[url |-> Get(desired_group, "base_url", <<>>), weight |-> 10]>>

\* The existing and the desired standard group differ in their redirect
\* rules, their channel type or their normalized upstream set.
StandardDiffers(existing_group, desired_group) ==
    \/ Get(existing_group, "model_redirect_rules", <<>>)
           # Get(desired_group, "model_redirect_rules", <<>>)
    \/ ~SameField(existing_group, desired_group, "channel_type")
    \/ _normalize_upstreams(Get(existing_group, "upstreams", <<>>))
           # _normalize_upstreams(DesiredUpstreams(desired_group))

\* C24: a standard group present in both the existing snapshot and the
\* desired state is in to_update_standard if and only if its redirect rules,
\* its channel type or its normalized upstream set differs; a group equal on
\* these three, also one whose upstream URL differs only by a trailing
\* slash, is not flagged.
C24_StandardUpdateDetection ==
    run.id # 0 =>
        \A d \in Range(OfType(run.desired.group_by_name, "standard")) :
            d.name \in DictKeys(OfType(run.existing.group_by_name, "standard")) =>
                (d.name \in NamesIn(run.diff.to_update_standard)
                    <=> StandardDiffers(DictGet(run.existing.group_by_name, d.name), d))

(***************************************************************************)
(* Claims on the names of the duplicate groups (under SpecSplit)           *)
(***************************************************************************)
\* The duplicate-model groups of a provider, in the order they were made
DuplicateGroupsOf(p) ==
    SelectSeq(split_out.value.split_groups, LAMBDA g :
        /\ g.provider_name = p
        /\ g.group_name # sanitize_name(p) \o NoAggregateSuffix)

\* C25: for each provider, the duplicate-model groups are named
\* "<sanitize(provider)>-<k>-<sanitize(model)>" where k is a single 1-based
\* counter that increases with every duplicate instance of that provider,
\* across distinct duplicate models as well as repeated occurrences of one
\* model: the k-th duplicate group of the provider carries k, and no two of
\* them carry the same k.
C25_SingleCounter ==
    split_out.done =>
        \A p \in Range(ProviderOrder) :
            \A k \in DOMAIN DuplicateGroupsOf(p) :
                \E m \in DOMAIN DuplicateGroupsOf(p)[k].model_redirect_rules :
                    DuplicateGroupsOf(p)[k].group_name =
                        sanitize_name(p) \o <<"-">> \o Str(k) \o <<"-">>
                            \o sanitize_name(m)

(***************************************************************************)
(* Claims on the targets of a run's remote calls (under SpecRun)           *)
(***************************************************************************)
\* The name of the group the run created under the id g in its
\* standard-group creation step: the set is empty when there is none.
CreatedStandardName(g) ==
    {log[c].arg : c \in {k \in DOMAIN log :
        /\ log[k].op = "create_group" /\ log[k].ok /\ log[k].id = g
        /\ IssuedIn(k) = "create_standard"}}

\* The name the snapshot knows the group id under
SnapshotName(id) ==
    {e.name : e \in {x \in Range(run.existing.group_by_name) : x.id = id}}

\* C26: in the standard-group creation step a newly created standard group
\* is linked as a sub-group only into an existing aggregate that matches it:
\* the aggregate of the model the group offers, whose desired membership
\* contains the group; never into an aggregate of a different model.
C26_LinkOnlyMatching ==
    \A i \in DOMAIN log :
        (log[i].op = "add_sub_groups" /\ log[i].ok /\ IssuedIn(i) = "create_standard") =>
            \A g \in log[i].arg :
                /\ CreatedStandardName(g) # {}
                /\ \A created \in CreatedStandardName(g), aggregate \in SnapshotName(log[i].id) :
                       /\ created \in DesiredMembers(aggregate)
                       /\ DictGet(run.desired.group_by_name, aggregate).model_name
                              \in DOMAIN DictGet(run.desired.group_by_name,
                                                 created).model_redirect_rules

\* C27: within one incremental run, once a delete call for a remote group id
\* has succeeded, no later remote call of the same run (sub-group add or
\* remove, update, or delete) targets that id; an aggregate deleted as
\* orphaned or for recreation is never afterwards the target of a membership
\* change or of linking a newly created standard group.
C27_NoCallAfterDelete ==
    \A i, j \in DOMAIN log :
        (/\ i < j
         /\ log[i].op = "delete_group" /\ log[i].ok
         /\ log[j].op \in {"add_sub_groups", "delete_sub_group",
                           "update_group", "delete_group"})
            => log[j].id # log[i].id

(***************************************************************************)
(* Claims on the report and the outcome of a run (under SpecRun)           *)
(***************************************************************************)
\* C28: the execution report is faithful: every group listed in
\* standard_groups_updated, and every aggregate listed in
\* aggregate_groups_deleted with reason orphaned, had its remote update or
\* delete call succeed in this run; a group whose call failed appears only
\* through an entry in errors[].
C28_ReportFaithful ==
    /\ \A u \in Range(run.result.standard_groups_updated) :
           Succeeded("update_group", ExistingId(u.name)) # {}
    /\ \A d \in Range(run.result.aggregate_groups_deleted) :
           d.reason = "orphaned" =>
               Succeeded("delete_group", ExistingId(d.name)) # {}

\* In a step of a run whose listing for the tracked-state refresh failed
\* (the failing listing itself, and the coordinator's end of the run) the
\* tracked rows stay as they were.
TrackedKeptOnFailedRefresh == run'.wipe => tracked' = tracked

\* C29: if the remote group listing read during the final tracked-state
\* refresh fails, the previously persisted tracked rows are left unchanged:
\* the wipe issued at the start of the refresh is not committed by the
\* failure handling that records the run as failed.
C29_WipeNotCommitted == [][TrackedKeptOnFailedRefresh]_vars

\* What the finished run's report lists as applied, as the coordinator reads it.
ReportApplied ==
    \/ run.result.standard_groups_created # <<>>
    \/ run.result.standard_groups_updated # <<>>
    \/ run.result.aggregate_groups_created # <<>>

ReportErrors == run.result.errors # <<>>

\* C30 as stated: a finished run whose generator did not raise and whose
\* report has errors ends failed exactly when the report lists no created
\* standard group, no updated standard group and no created aggregate; in
\* every other case it ends success with the errors counted in the summary.
C30_OutcomeAsStated ==
    (RunDone /\ ~run.raised /\ ReportErrors) =>
        IF ~ReportApplied
          THEN run.status = "failed"
          ELSE run.status = "success"
               /\ run.summary_errors = Len(run.result.errors)

\* C30: a finished run whose generator did not raise and whose report has
\* errors ends failed, before any YAML is generated, when the report lists no
\* created standard group, no updated standard group and no created
\* aggregate (deletions do not count); otherwise it ends success with the
\* errors counted in the summary, unless the YAML generation raised something
\* other than an I/O error of the export, and then it ends failed.
C30_Outcome ==
    (RunDone /\ ~run.raised /\ ReportErrors) =>
        IF ~ReportApplied
          THEN run.status = "failed" /\ run.yaml = "none"
          ELSE IF run.yaml = "fault"
            THEN run.status = "failed"
            ELSE run.status = "success"
                 /\ run.summary_errors = Len(run.result.errors)

C30_Witness ==
    /\ RunDone /\ ~run.raised
    /\ ReportErrors /\ ReportApplied
    /\ run.yaml = "io"
    /\ run.status = "success"
    /\ run.summary_errors > 0

====
